---- MODULE Spec2Model ----
(***************************************************************************)
(* Planning-poker realtime server: the room / session manager.             *)
(*                                                                         *)
(* The repository ships two implementations of the same wire protocol:     *)
(*   - the Node server  (servers/node/src/index.ts, src/unnamed/part_004)  *)
(*   - the Go server    (src/servers/golang/main.go, lines 1-849)          *)
(* The variable impl selects the one a behaviour runs; every handler is    *)
(* translated from the code of that implementation.  The Node server is    *)
(* single threaded: one handler is one step.  A Go handler runs on the     *)
(* goroutine of its connection and is split at its lock boundaries: the    *)
(* room lookup (roomsMu), the mutation (room.mu.Lock) and the broadcast    *)
(* (room.mu.RLock + clientsMu.RLock).                                      *)
(***************************************************************************)
EXTENDS Integers, Sequences, FiniteSets, TLC

\* ---------------------------------------------------------------- bounds
MaxConns == 2           \* connections accepted under Spec
MaxMsgs == 3            \* client and bridge messages handled under Spec
MaxConnsReconnect == 3  \* connections accepted under SpecReconnect
MaxMsgsReconnect == 4   \* client messages handled under SpecReconnect
MaxConnsRound == 2      \* connections accepted under SpecRound
MaxMsgsRound == 5       \* client messages handled under SpecRound
MaxConnsJoin == 3       \* connections accepted under SpecJoin
MaxMsgsJoin == 3        \* client messages handled under SpecJoin
MaxConnsHeartbeat == 2  \* connections accepted under SpecHeartbeat
MaxMsgsHeartbeat == 2   \* client messages handled under SpecHeartbeat
MaxTicks == 3           \* heartbeat ticks under SpecHeartbeat
MaxStarts == 3          \* handlers, ticks, rebroadcasts started, SpecLocks
MaxConnsMessages == 2   \* connections accepted under SpecMessages
MaxMsgsMessages == 2    \* client messages read under SpecMessages
MaxConnsCluster == 2    \* connections accepted under SpecCluster
MaxMsgsCluster == 4     \* client messages handled under SpecCluster
MaxConnsView == 2       \* connections accepted under SpecView
MaxMsgsView == 4        \* client messages handled under SpecView
MaxSockets == 3         \* connections accepted under SpecIds
MaxClock == 2           \* microseconds that pass under SpecIds

\* ------------------------------------------------------------ value sets
Impls == {"node", "go"}
Conns == 1..(IF MaxConns > MaxConnsReconnect THEN MaxConns
            ELSE MaxConnsReconnect)
RoomIds == {"R1", "R2"}
TheRoom == "R1"
Names == {"Alice", "Bob"}
VoteVals == {"", "5"}
Null == "<null>"
StoryVals == {Null, "S1"}
NotAString == "<not a string>"  \* a JSON value of another type, e.g. 7
NoData == "<no data>"           \* a message without a data object
RoomKeys == RoomIds \cup {NotAString}
NoId == 0
None == <<>>
Some(x) == <<x>>

Instances == {1, 2}
ClusterConns == 1..MaxConnsCluster
ClusterOps == {"vote", "reveal", "reestimate", "reset"}

ParticipantOps == {"vote", "suspend-voting", "resume-voting", "update-name"}
RoomOps == {"reveal", "reestimate", "reset", "update-story"}
TerminalOps == {"reveal", "reestimate", "reset"}
StateOps == {"join-room", "reestimate", "suspend-voting", "resume-voting",
             "update-name"}

VARIABLES
  impl,         \* which server runs
  rooms,        \* room id -> RoomState            (the rooms map)
  roomsCreated, \* number of RoomState objects ever allocated
  clients,      \* registered connection ids       (the clients map)
  sockOpen,     \* connections whose socket is open
  nextId,       \* number of connection ids generated so far
  wsRoomId,     \* ws.roomId / ws.RoomID of every connection
  hand,         \* Go: the handler in flight on each connection's goroutine
  sent,         \* the sends performed by the last step
  nmsg,         \* number of client messages handled
  lastTerminal, \* history: last of reveal/reestimate/reset applied per room
  atClose,      \* history: a connection's participant entries at disconnect
  wiped,        \* history: reestimate/reset seen by a room since disconnect
  recv,         \* history: the last client message read
  track,        \* whether the specification records joined
  joined,       \* history, Go: the participants a pending join left behind
  thr,          \* Go, lock level: what each goroutine has left to execute
  lk,           \* Go, lock level: readers and writer of every RWMutex
  store,        \* Go, lock level: room id -> instance, the keys of s.rooms
  clears,       \* Go, lock level: how often Shutdown replaced s.rooms
  started,      \* Go, lock level: number of handlers, ticks, ... started
  reg,          \* Go, lock level: the read loops with an entry in s.clients
  shut,         \* Go, lock level: the read loops whose socket was closed
  isAlive,      \* ws.isAlive / ws.IsAlive of every connection
  probe,        \* the connections with a ping they have not answered
  since,        \* history: ticks since the connection's last answer
  hbClosed,     \* history: the connections the heartbeat closed
  nticks,       \* number of heartbeat ticks
  redisUrl,     \* whether REDIS_URL is set, i.e. the bridge is configured
  published,    \* the tuples the last step published to "ws-broadcast"
  cstore,       \* cluster: the rooms map of every instance
  ccreated,     \* cluster: rooms allocated by every instance
  cclients,     \* cluster: the clients map of every instance
  cqueue,       \* cluster: "ws-broadcast" messages each subscriber has to read
  cdeliv,       \* cluster: the sends the last step performed
  cgot,         \* cluster, history: (broadcast, connection) pairs delivered
  cbid,         \* cluster, history: number of operations handled
  now,          \* ids: the clock, in microseconds
  nsock,        \* ids: number of connections accepted
  sockId,       \* ids: the id given to every accepted connection
  live,         \* ids: accepted connections whose close was not handled
  registry,     \* ids: the clients map, id -> connection
  view,         \* client: the state useRealtime holds for every connection
  vstamp,       \* client: the step whose messages the clients have handled
  roomConns     \* lock level: the connections in every room's Participants

\* the lock-level view of the Go server
lockVars == <<thr, lk, store, clears, started, reg, shut, roomConns>>

\* the heartbeat
hbVars == <<isAlive, probe, since, hbClosed, nticks>>

\* several instances on one shared channel
clusterVars == <<cstore, ccreated, cclients, cqueue, cdeliv, cgot, cbid>>

\* the variables of the views no single-instance step touches
\* the registry keyed by generated ids
idVars == <<now, nsock, sockId, live, registry>>

\* the clients' views
viewVars == <<view, vstamp>>

sideVars == <<clusterVars, idVars, viewVars>>

\* the variables the protocol handlers never touch, but for recv
extNoRecv == <<track, lockVars, hbVars, sideVars>>
\* the variables the protocol handlers never touch
ext == <<recv, extNoRecv>>

\* the protocol-level view
protoVars == <<impl, rooms, roomsCreated, clients, sockOpen, nextId, wsRoomId,
               hand, sent, nmsg, lastTerminal, atClose, wiped, recv, track,
               joined, redisUrl, published>>

\* the single instance
mainVars == <<protoVars, lockVars, hbVars>>

vars == <<mainVars, sideVars>>

\* ------------------------------------------------------------- utilities
Min(S) == CHOOSE x \in S : \A y \in S : x <= y
Range(s) == {s[i] : i \in DOMAIN s}
Without(f, k) == [i \in (DOMAIN f) \ {k} |-> f[i]]
SeqWithout(s, k) == SelectSeq(s, LAMBDA x : x # k)

\* ----------------------------------------------------------- room store
NewRoom(inst) ==
  [inst |-> inst, order |-> <<>>, p |-> <<>>, revealed |-> FALSE,
   story |-> Null, lastRound |-> None]

\* getOrCreateRoom without the lookup: a room is allocated on every call
getOrCreateRoomAlways(rs, created, r) ==
  [rooms |-> (r :> NewRoom(created + 1)) @@ rs, created |-> created + 1]

\* getOrCreateRoom: the store after the call and the number of rooms
\* allocated so far; the room returned is .rooms[r].
getOrCreateRoom(rs, created, r) ==
  IF r \in DOMAIN rs
    THEN [rooms |-> rs, created |-> created]
    ELSE [rooms |-> (r :> NewRoom(created + 1)) @@ rs,
          created |-> created + 1]

\* ----------------------------------------------------- room mutations
\* The ids a join may find as "participant with the same name": the Node
\* Map iterates in insertion order and stops at the first match, the Go
\* map iterates in an unspecified order.
FindExisting(room, name) ==
  LET byName == {i \in DOMAIN room.p : room.p[i].name = name}
      idx == {i \in 1..Len(room.order) : room.order[i] \in byName}
  IN IF byName = {} THEN {NoId}
     ELSE IF impl = "node" THEN {room.order[Min(idx)]}
     ELSE byName

\* Map.set keeps the position of an existing key and appends a new one;
\* the Go map has no order.
MapSetOrder(order, id) ==
  IF impl = "go" THEN <<>>
  ELSE IF id \in Range(order) THEN order ELSE Append(order, id)

\* the join without the copy of vote and paused from the entry found
JoinParticipantsNoRestore(room, id, name, oldId) ==
  LET p1 == IF oldId # NoId THEN Without(room.p, oldId) ELSE room.p
      o1 == IF oldId # NoId THEN SeqWithout(room.order, oldId) ELSE room.order
  IN [room EXCEPT
        !.p = (id :> [name |-> name, vote |-> Null, paused |-> FALSE]) @@ p1,
        !.order = MapSetOrder(o1, id)]

\* the join without the delete of the entry found
JoinParticipantsKeepOld(room, id, name, oldId) ==
  LET old == IF oldId # NoId THEN room.p[oldId]
             ELSE [name |-> name, vote |-> Null, paused |-> FALSE]
  IN [room EXCEPT
        !.p = (id :> [name |-> name, vote |-> old.vote,
                      paused |-> old.paused]) @@ room.p,
        !.order = MapSetOrder(room.order, id)]

JoinParticipants(room, id, name, oldId) ==
  IF oldId # NoId
    THEN LET old == room.p[oldId]
             p1 == Without(room.p, oldId)
             o1 == SeqWithout(room.order, oldId)
         IN [room EXCEPT
               !.p = (id :> [name |-> name, vote |-> old.vote,
                             paused |-> old.paused]) @@ p1,
               !.order = MapSetOrder(o1, id)]
    ELSE [room EXCEPT
            !.p = (id :> [name |-> name, vote |-> Null,
                          paused |-> FALSE]) @@ room.p,
            !.order = MapSetOrder(room.order, id)]

RoundId == IF impl = "node" THEN "Date.now()" ELSE "\\uFFFD"

VoteRoom(room, id, v) ==
  IF id \in DOMAIN room.p THEN [room EXCEPT !.p[id].vote = v] ELSE room

ClearVotes(p) == [i \in DOMAIN p |-> [p[i] EXCEPT !.vote = Null]]

\* the reveal with a snapshot that drops the votes
RevealRoomNoVotes(room) ==
  [room EXCEPT !.revealed = TRUE,
               !.lastRound = Some([id |-> RoundId,
                                   participants |-> ClearVotes(room.p)])]

RevealRoom(room) ==
  [room EXCEPT !.revealed = TRUE,
               !.lastRound = Some([id |-> RoundId, participants |-> room.p])]

\* the re-estimate without the assignment to revealed
ReestimateRoomKeepsRevealed(room) == [room EXCEPT !.p = ClearVotes(room.p)]

\* the re-estimate on a snapshot that shares its records with the live
\* participants: the votes of lastRound are cleared with them
ReestimateRoomSharedSnapshot(room) ==
  [room EXCEPT
     !.revealed = FALSE,
     !.p = ClearVotes(room.p),
     !.lastRound =
        IF room.lastRound = None THEN None
        ELSE Some([room.lastRound[1] EXCEPT
                     !.participants =
                        ClearVotes(room.lastRound[1].participants)])]

\* the re-estimate that leaves the votes of paused participants
ReestimateRoomSkipsPaused(room) ==
  [room EXCEPT
     !.revealed = FALSE,
     !.p = [i \in DOMAIN room.p |->
              IF room.p[i].paused THEN room.p[i]
              ELSE [room.p[i] EXCEPT !.vote = Null]]]

ReestimateRoom(room) ==
  [room EXCEPT !.revealed = FALSE, !.p = ClearVotes(room.p)]

\* the reset without the assignment to revealed
ResetRoomKeepsRevealed(room) ==
  IF impl = "node"
    THEN [room EXCEPT !.p = ClearVotes(room.p), !.lastRound = None,
                      !.story = Null]
    ELSE [room EXCEPT !.p = ClearVotes(room.p)]

ResetRoom(room) ==
  IF impl = "node"
    THEN [room EXCEPT !.revealed = FALSE, !.p = ClearVotes(room.p),
                      !.lastRound = None, !.story = Null]
    ELSE [room EXCEPT !.revealed = FALSE, !.p = ClearVotes(room.p)]

UpdateStoryRoom(room, s) == [room EXCEPT !.story = s]

SuspendRoom(room, id) ==
  IF id \in DOMAIN room.p THEN [room EXCEPT !.p[id].paused = TRUE] ELSE room

ResumeRoom(room, id) ==
  IF id \notin DOMAIN room.p THEN room
  ELSE IF impl = "node" THEN [room EXCEPT !.p[id].paused = FALSE]
  ELSE [room EXCEPT !.p[id].paused = FALSE, !.p[id].vote = Null]

\* the rename that drops the other participants of the new name, as the
\* join does
UpdateNameRoomTakesOver(room, id, name) ==
  IF id \notin DOMAIN room.p THEN room
  ELSE LET others == {i \in DOMAIN room.p : i # id /\ room.p[i].name = name}
           keep == (DOMAIN room.p) \ others
       IN [room EXCEPT
             !.p = [i \in keep |->
                      IF i = id THEN [room.p[i] EXCEPT !.name = name]
                      ELSE room.p[i]],
             !.order = SelectSeq(room.order, LAMBDA x : x \in keep)]

UpdateNameRoom(room, id, name) ==
  IF id \in DOMAIN room.p THEN [room EXCEPT !.p[id].name = name] ELSE room

Mutate(op, room, id, arg) ==
  CASE op = "vote" -> VoteRoom(room, id, arg)
    [] op = "reveal" -> RevealRoom(room)
    [] op = "reestimate" -> ReestimateRoom(room)
    [] op = "reset" -> ResetRoom(room)
    [] op = "update-story" -> UpdateStoryRoom(room, arg)
    [] op = "suspend-voting" -> SuspendRoom(room, id)
    [] op = "resume-voting" -> ResumeRoom(room, id)
    [] op = "update-name" -> UpdateNameRoom(room, id, arg)

\* ------------------------------------------------------------- payloads
StateData(room) ==
  [participants |-> room.p, revealed |-> room.revealed,
   story |-> room.story, lastRound |-> room.lastRound]

MsgType(op) ==
  CASE op \in StateOps -> "room-state"
    [] op = "vote" -> "participant-voted"
    [] op = "reveal" -> "revealed"
    [] op = "reset" -> "room-reset"
    [] op = "update-story" -> "story-updated"

\* the payloads with the vote value added to participant-voted
PayloadWithVote(op, room, id, arg) ==
  CASE op \in StateOps -> StateData(room)
    [] op = "vote" -> [id |-> id, hasVote |-> arg # "", vote |-> arg]
    [] op = "reveal" ->
         [participants |-> room.p, lastRound |-> room.lastRound]
    [] op = "reset" -> [participants |-> room.p, story |-> room.story]
    [] op = "update-story" -> [story |-> room.story]

\* the payload of the message an operation emits, from the room after it
Payload(op, room, id, arg) ==
  CASE op \in StateOps -> StateData(room)
    [] op = "vote" -> [id |-> id, hasVote |-> arg # ""]
    [] op = "reveal" ->
         [participants |-> room.p, lastRound |-> room.lastRound]
    [] op = "reset" -> [participants |-> room.p, story |-> room.story]
    [] op = "update-story" -> [story |-> room.story]

\* ---------------------------------------------------- the client's view
\* Participants component: spectators are the participants named "Guest";
\* votedCount is the number shown as ready, of the participants that are
\* neither spectators nor paused those whose vote is not null
GuestName == "Guest"
votedCount(p) ==
  Cardinality({i \in DOMAIN p :
                 p[i].name # GuestName /\ ~p[i].paused /\ p[i].vote # Null})

\* ---------------------------------------------------------------- sends
\* sendToClient: delivered when the socket is open
SendToClient(so, r, id, type, data) ==
  [kind |-> "send", room |-> r, type |-> type, data |-> data,
   exclude |-> {}, to |-> {id} \cap so]

\* broadcastToRoom: every participant id of the room that is not excluded
\* and resolves to a registered connection is written to
\* the recipients without the test of the exclude list
RecipientsAll(rs, cl, so, r, excl) ==
  IF r \notin DOMAIN rs THEN {}
  ELSE {id \in DOMAIN rs[r].p : id \in cl /\ id \in so}

\* the loop that gives up at the first participant it cannot write to
RecipientsAbortOnDead(rs, cl, so, r, excl) ==
  IF r \notin DOMAIN rs THEN {}
  ELSE IF \E id \in DOMAIN rs[r].p :
            id \notin excl /\ (id \notin cl \/ id \notin so)
    THEN {}
  ELSE {id \in DOMAIN rs[r].p : id \notin excl}

Recipients(rs, cl, so, r, excl) ==
  IF r \notin DOMAIN rs THEN {}
  ELSE {id \in DOMAIN rs[r].p : id \notin excl /\ id \in cl /\ id \in so}

BroadcastToRoom(rs, cl, so, r, type, data, excl) ==
  [kind |-> "broadcast", room |-> r, type |-> type, data |-> data,
   exclude |-> excl, to |-> Recipients(rs, cl, so, r, excl)]

\* publishToRedis as the handlers call it: only when REDIS_URL is set
PublishToRedis(url, r, type, data, excl) ==
  IF url
    THEN << [room |-> r, type |-> type, data |-> data, exclude |-> excl] >>
    ELSE <<>>

\* ----------------------------------------------------------- the client
\* useRealtime: the state of the hook before the first message
InitialView ==
  [participants |-> <<>>, revealed |-> FALSE, story |-> Null,
   lastRound |-> None]

\* useRealtime, the switch of the message handler
ClientHandle(v, m) ==
  CASE m.type = "room-state" ->
         [participants |-> m.data.participants,
          revealed |-> m.data.revealed,
          story |-> m.data.story,
          lastRound |-> m.data.lastRound]
    [] m.type = "participant-voted" ->
         [v EXCEPT !.participants =
            [i \in DOMAIN v.participants |->
               IF i = m.data.id
                 THEN [v.participants[i] EXCEPT
                         !.vote = IF m.data.hasVote THEN "hidden" ELSE Null]
                 ELSE v.participants[i]]]
    [] m.type = "revealed" ->
         [v EXCEPT !.participants = m.data.participants,
                   !.revealed = TRUE,
                   !.lastRound = m.data.lastRound]
    [] m.type = "room-reset" ->
         [v EXCEPT !.participants = m.data.participants,
                   !.revealed = FALSE,
                   !.story = Null,
                   !.lastRound = None]
    [] m.type = "story-updated" -> [v EXCEPT !.story = m.data.story]
    [] OTHER -> v

\* the handler applied to the first n messages of a step that were written
\* to connection c, in the order of the writes
RECURSIVE ClientHandleAll(_, _, _, _)
ClientHandleAll(v, msgs, c, n) ==
  IF n = 0 THEN v
  ELSE LET before == ClientHandleAll(v, msgs, c, n - 1)
       IN IF msgs[n].kind \in {"send", "broadcast"} /\ c \in msgs[n].to
            THEN ClientHandle(before, msgs[n])
            ELSE before

\* ------------------------------------------------------------- history
Gone == (1..nextId) \ clients

HistApply(op, r) ==
  /\ lastTerminal' = IF op \in TerminalOps
                       THEN [lastTerminal EXCEPT ![r] = op]
                       ELSE lastTerminal
  /\ wiped' = IF op \in {"reestimate", "reset"}
                THEN [c \in Conns |->
                        IF c \in Gone /\ (op = "reset" \/ wiped[c][r] = "none")
                          THEN [wiped[c] EXCEPT ![r] = op]
                          ELSE wiped[c]]
                ELSE wiped

HistSkip == UNCHANGED <<lastTerminal, wiped>>

\* ------------------------------------------------- Go: the lock level
\* The goroutines: the read loops of two connections, the heartbeat, the
\* bridge subscriber and the caller of Shutdown.
Handlers == {"h1", "h2"}
LThreads == Handlers \cup {"hb", "sub", "down"}
NoThread == "none"
NoRoom == "-"

\* the locks: s.roomsMu, s.clientsMu and the mu of every RoomState
\* instance; Ptr(k) stands for the mu of a room pointer not yet read
RM == <<"roomsMu">>
CM == <<"clientsMu">>
Mu(r, g) == <<"mu", r, g>>
Ptr(k) == <<"ptr", k>>
MaxClears == 1
LLocks == {RM, CM} \cup {Mu(r, g) : r \in RoomIds, g \in 0..MaxClears}

\* one instruction of a goroutine
I(op, l) == [op |-> op, l |-> l, r |-> NoRoom, k |-> 0, miss |-> <<>>]
\* room, exists := s.rooms[r]; s.roomsMu.RUnlock(); if !exists { return }:
\* miss is what is left to run after the return
Find(r, k, miss) ==
  [op |-> "RUnlockFind", l |-> RM, r |-> r, k |-> k, miss |-> miss]

\* broadcastToRoom, followed by tail
BroadcastToRoomProg(r, tail) ==
  << I("RLock", RM), Find(r, 2, tail), I("RLock", Ptr(2)), I("RLock", CM),
     I("Send", CM), I("RUnlock", CM), I("RUnlock", Ptr(2)) >> \o tail

\* broadcastRoomState: the read lock of the room is held over the call of
\* broadcastToRoom
BroadcastRoomStateProg(r) ==
  << I("RLock", RM), Find(r, 1, <<>>), I("RLock", Ptr(1)) >>
    \o BroadcastToRoomProg(r, << I("RUnlock", Ptr(1)) >>)

\* the lookup and the mutation of every handler but handleJoinRoom
LookupMutateProg(r) ==
  << I("RLock", RM), Find(r, 0, <<>>), I("Lock", Ptr(0)),
     I("Unlock", Ptr(0)) >>

\* handleVote, handleReveal, handleReset, handleUpdateStory
VoteLikeProg(r) == LookupMutateProg(r) \o BroadcastToRoomProg(r, <<>>)
\* handleReestimate, handleSuspendVoting, handleResumeVoting,
\* handleUpdateName
StateLikeProg(r) == LookupMutateProg(r) \o BroadcastRoomStateProg(r)
\* handleJoinRoom
JoinProg(r) ==
  << I("Lock", RM),
     [op |-> "UnlockCreate", l |-> RM, r |-> r, k |-> 0, miss |-> <<>>],
     I("Lock", Ptr(0)), I("UnlockJoin", Ptr(0)) >> \o BroadcastRoomStateProg(r)
\* handleWebSocket: the registration
RegisterProg == << I("Lock", CM), I("UnlockRegister", CM) >>
\* handleClientDisconnect of a connection whose RoomID is r
DisconnectProg(r) ==
  << I("Lock", CM), I("UnlockDeregister", CM), I("RLock", RM),
     Find(r, 0, <<>>), I("RLock", Ptr(0)), I("RUnlock", Ptr(0)) >>
\* startHeartbeat: one tick
HeartbeatProg == << I("Lock", CM), I("Probe", CM), I("Unlock", CM) >>
\* Shutdown
ShutdownProg ==
  << I("Lock", RM), I("UnlockClear", RM), I("Lock", CM),
     I("UnlockCloseAll", CM) >>

\* what a goroutine may start
Progs(t) ==
  CASE t \in Handlers ->
         {[kind |-> "register", room |-> NoRoom, prog |-> RegisterProg]}
         \cup {[kind |-> "join", room |-> r, prog |-> JoinProg(r)] :
                 r \in RoomIds}
         \cup {[kind |-> "votelike", room |-> r, prog |-> VoteLikeProg(r)] :
                 r \in RoomIds}
         \cup {[kind |-> "statelike", room |-> r, prog |-> StateLikeProg(r)] :
                 r \in RoomIds}
         \cup {[kind |-> "disconnect", room |-> r,
                 prog |-> DisconnectProg(r)] : r \in RoomIds}
    [] t = "hb" ->
         {[kind |-> "heartbeat", room |-> NoRoom, prog |-> HeartbeatProg]}
    [] t = "sub" ->
         {[kind |-> "rebroadcast", room |-> r,
           prog |-> BroadcastToRoomProg(r, <<>>)] : r \in RoomIds}
    [] t = "down" ->
         {[kind |-> "shutdown", room |-> NoRoom, prog |-> ShutdownProg]}

Idle == [kind |-> "idle", room |-> NoRoom, prog |-> <<>>]

\* the pointer read by a lookup replaces Ptr(k) in what is left to run
SubstFlat(prog, k, l) ==
  [i \in DOMAIN prog |->
     [prog[i] EXCEPT !.l = IF @ = Ptr(k) THEN l ELSE @]]
Subst(prog, k, l) ==
  [i \in DOMAIN prog |->
     [prog[i] EXCEPT !.l = IF @ = Ptr(k) THEN l ELSE @,
                     !.miss = SubstFlat(@, k, l)]]

\* the next instruction of goroutine t
Busy(t) == thr[t].prog # <<>>
HeadOp(t) == thr[t].prog[1]
Pop(t) == [thr EXCEPT ![t].prog = Tail(@)]
Finish(th) ==
  [t \in LThreads |-> IF th[t].prog = <<>> THEN Idle ELSE th[t]]

\* a goroutine starts a handler, a tick, a rebroadcast or the shutdown.
\* A read loop registers its connection first, handles messages while the
\* socket is open and deregisters in the end; on a closed socket ReadJSON
\* fails and the deregistration is all that is left to start.  Shutdown
\* is called once, and its cancel stops the heartbeat and the subscriber.
LStart(t, p) ==
  /\ ~Busy(t)
  /\ t = "down" => clears = 0
  /\ t \in {"hb", "sub"} => (clears = 0 /\ ~Busy("down"))
  /\ p.kind = "register" => t \notin reg
  /\ p.kind \in {"join", "votelike", "statelike"} =>
       (t \in reg /\ t \notin shut)
  /\ p.kind = "disconnect" => t \in reg
  /\ thr' = [thr EXCEPT ![t] = p]
  /\ IF p.kind = "register" \/ (p.kind = "disconnect" /\ t \in shut)
       THEN UNCHANGED started
       ELSE started < MaxStarts /\ started' = started + 1
  /\ UNCHANGED <<lk, store, clears, protoVars, hbVars, sideVars, reg, shut, roomConns>>

\* RWMutex.RLock: blocks while a writer holds the lock or has announced
\* itself
LRLock(t) ==
  /\ Busy(t)
  /\ HeadOp(t).op = "RLock"
  /\ lk[HeadOp(t).l].w = NoThread
  /\ lk' = [lk EXCEPT ![HeadOp(t).l].rd[t] = @ + 1]
  /\ thr' = Finish(Pop(t))
  /\ UNCHANGED <<store, clears, started, protoVars, hbVars, sideVars, reg, shut, roomConns>>

\* RWMutex.Lock, first half: the writer takes the writer mutex and
\* announces itself to the readers
LLockRequest(t) ==
  /\ Busy(t)
  /\ HeadOp(t).op = "Lock"
  /\ lk[HeadOp(t).l].w = NoThread
  /\ lk' = [lk EXCEPT ![HeadOp(t).l].w = t]
  /\ thr' = [thr EXCEPT ![t].prog[1].op = "Acquire"]
  /\ UNCHANGED <<store, clears, started, protoVars, hbVars, sideVars, reg, shut, roomConns>>

\* RWMutex.Lock, second half: the writer waits for the readers to leave
LLockAcquire(t) ==
  /\ Busy(t)
  /\ HeadOp(t).op = "Acquire"
  /\ \A u \in LThreads : lk[HeadOp(t).l].rd[u] = 0
  /\ thr' = Finish(Pop(t))
  /\ UNCHANGED <<lk, store, clears, started, protoVars, hbVars, sideVars, reg, shut, roomConns>>

\* RWMutex.Unlock
LUnlock(t) ==
  /\ Busy(t)
  /\ HeadOp(t).op = "Unlock"
  /\ lk' = [lk EXCEPT ![HeadOp(t).l].w = NoThread]
  /\ thr' = Finish(Pop(t))
  /\ UNCHANGED <<store, clears, started, protoVars, hbVars, sideVars, reg, shut, roomConns>>

\* RWMutex.RUnlock
LRUnlock(t) ==
  /\ Busy(t)
  /\ HeadOp(t).op = "RUnlock"
  /\ lk' = [lk EXCEPT ![HeadOp(t).l].rd[t] = @ - 1]
  /\ thr' = Finish(Pop(t))
  /\ UNCHANGED <<store, clears, started, protoVars, hbVars, sideVars, reg, shut, roomConns>>

\* the map lookup under roomsMu.RLock and the RUnlock after it
LFind(t) ==
  /\ Busy(t)
  /\ HeadOp(t).op = "RUnlockFind"
  /\ lk' = [lk EXCEPT ![RM].rd[t] = @ - 1]
  /\ LET h == HeadOp(t)
         rest == IF h.r \in DOMAIN store
                   THEN Subst(Tail(thr[t].prog), h.k, Mu(h.r, store[h.r]))
                   ELSE h.miss
     IN thr' = Finish([thr EXCEPT ![t].prog = rest])
  /\ UNCHANGED <<store, clears, started, protoVars, hbVars, sideVars, reg, shut, roomConns>>

\* getOrCreateRoom under roomsMu.Lock and the Unlock after it
LCreate(t) ==
  /\ Busy(t)
  /\ HeadOp(t).op = "UnlockCreate"
  /\ lk' = [lk EXCEPT ![RM].w = NoThread]
  /\ LET h == HeadOp(t)
         st == IF h.r \in DOMAIN store THEN store
               ELSE (h.r :> clears) @@ store
     IN /\ store' = st
        /\ thr' = Finish([thr EXCEPT
                    ![t].prog = Subst(Tail(@), h.k, Mu(h.r, st[h.r]))])
  /\ UNCHANGED <<clears, started, protoVars, hbVars, sideVars, reg, shut, roomConns>>

\* Shutdown: s.rooms = make(...) under roomsMu.Lock and the Unlock after it
LClear(t) ==
  /\ Busy(t)
  /\ HeadOp(t).op = "UnlockClear"
  /\ lk' = [lk EXCEPT ![RM].w = NoThread]
  /\ store' = <<>>
  /\ clears' = clears + 1
  /\ thr' = Finish(Pop(t))
  /\ UNCHANGED <<started, protoVars, hbVars, sideVars, reg, shut, roomConns>>

\* handleJoinRoom: room.Participants[ws.ID] = ... and the Unlock after it
LJoin(t) ==
  /\ Busy(t)
  /\ HeadOp(t).op = "UnlockJoin"
  /\ lk' = [lk EXCEPT ![HeadOp(t).l].w = NoThread]
  /\ roomConns' = [roomConns EXCEPT ![HeadOp(t).l] = @ \cup {t}]
  /\ thr' = Finish(Pop(t))
  /\ UNCHANGED <<store, clears, started, reg, shut, protoVars, hbVars, sideVars>>

\* handleWebSocket: s.clients[ws.ID] = ws and the Unlock after it
LRegister(t) ==
  /\ Busy(t)
  /\ HeadOp(t).op = "UnlockRegister"
  /\ lk' = [lk EXCEPT ![CM].w = NoThread]
  /\ reg' = reg \cup {t}
  /\ shut' = shut \ {t}
  /\ roomConns' = [mu \in DOMAIN roomConns |-> roomConns[mu] \ {t}]
  /\ thr' = Finish(Pop(t))
  /\ UNCHANGED <<store, clears, started, protoVars, hbVars, sideVars>>

\* handleClientDisconnect: delete(s.clients, ws.ID) and the Unlock after it
LDeregister(t) ==
  /\ Busy(t)
  /\ HeadOp(t).op = "UnlockDeregister"
  /\ lk' = [lk EXCEPT ![CM].w = NoThread]
  /\ reg' = reg \ {t}
  /\ shut' = shut \ {t}
  /\ thr' = Finish(Pop(t))
  /\ UNCHANGED <<store, clears, started, roomConns, protoVars, hbVars, sideVars>>

\* the loop of a heartbeat tick: the connections that did not answer are
\* closed, the others are pinged
LProbe(t, silent) ==
  /\ Busy(t)
  /\ HeadOp(t).op = "Probe"
  /\ silent \subseteq reg
  /\ shut' = shut \cup silent
  /\ thr' = Finish(Pop(t))
  /\ UNCHANGED <<lk, store, clears, started, reg, roomConns, protoVars, hbVars,
                 sideVars>>

\* Shutdown: every client is closed, s.clients = make(...), and the Unlock
\* after it
LCloseAll(t) ==
  /\ Busy(t)
  /\ HeadOp(t).op = "UnlockCloseAll"
  /\ lk' = [lk EXCEPT ![CM].w = NoThread]
  /\ shut' = shut \cup reg
  /\ reg' = {}
  /\ thr' = Finish(Pop(t))
  /\ UNCHANGED <<store, clears, started, roomConns, protoVars, hbVars, sideVars>>

\* client.WriteJSON / client.WriteMessage: the writes of a send loop
LSend(t) ==
  /\ Busy(t)
  /\ HeadOp(t).op = "Send"
  /\ thr' = Finish(Pop(t))
  /\ UNCHANGED <<lk, store, clears, started, protoVars, hbVars, sideVars, reg, shut, roomConns>>

\* --------------------------------------------------------------- Init
InitState ==
  /\ impl \in Impls
  /\ rooms = <<>>
  /\ roomsCreated = 0
  /\ clients = {}
  /\ sockOpen = {}
  /\ nextId = 0
  /\ wsRoomId = [c \in Conns |-> Null]
  /\ hand = [c \in Conns |-> None]
  /\ sent = <<>>
  /\ nmsg = 0
  /\ lastTerminal = [r \in RoomKeys |-> "none"]
  /\ atClose = [c \in Conns |-> <<>>]
  /\ wiped = [c \in Conns |-> [r \in RoomKeys |-> "none"]]
  /\ recv = None
  /\ joined = [c \in Conns |-> None]
  /\ thr = [t \in LThreads |-> Idle]
  /\ lk = [l \in LLocks |->
             [rd |-> [t \in LThreads |-> 0], w |-> NoThread]]
  /\ store = <<>>
  /\ clears = 0
  /\ started = 0
  /\ reg = {}
  /\ shut = {}
  /\ roomConns = [mu \in LLocks \ {RM, CM} |-> {}]
  /\ isAlive = [c \in Conns |-> TRUE]
  /\ probe = [c \in Conns |-> FALSE]
  /\ since = [c \in Conns |-> 0]
  /\ hbClosed = {}
  /\ nticks = 0
  /\ published = <<>>
  /\ cstore = [i \in Instances |-> <<>>]
  /\ ccreated = [i \in Instances |-> 0]
  /\ cclients = [i \in Instances |-> {}]
  /\ cqueue = [i \in Instances |-> <<>>]
  /\ cdeliv = <<>>
  /\ cgot = {}
  /\ cbid = 0
  /\ now = 0
  /\ nsock = 0
  /\ sockId = <<>>
  /\ live = {}
  /\ registry = <<>>
  /\ view = [c \in Conns |-> InitialView]
  /\ vstamp = <<>>

Init == InitState /\ track = FALSE /\ redisUrl = FALSE

\* the same, for the specifications that record the history of the joins
InitTracked == InitState /\ track = TRUE /\ redisUrl = FALSE

\* ----------------------------------------------------- connection life
\* wss.on("connection") / handleWebSocket: a fresh id is generated and the
\* connection is registered
Connect(max) ==
  /\ nextId < max
  /\ nextId' = nextId + 1
  /\ clients' = clients \cup {nextId + 1}
  /\ sockOpen' = sockOpen \cup {nextId + 1}
  /\ sent' = <<>>
  /\ published' = <<>>
  /\ UNCHANGED <<impl, redisUrl, rooms, roomsCreated, wsRoomId, hand, nmsg,
                 lastTerminal, atClose, wiped, ext,
                 joined>>

\* the socket closes (peer close, error, terminate)
Close(c) ==
  /\ c \in sockOpen
  /\ sockOpen' = sockOpen \ {c}
  /\ sent' = <<>>
  /\ published' = <<>>
  /\ UNCHANGED <<impl, redisUrl, rooms, roomsCreated, clients, nextId, wsRoomId, hand,
                 nmsg, lastTerminal, atClose, wiped, ext,
                 joined>>

\* what the close handler does to the registry and to the room store
DisconnectClients(cl, c) == cl \ {c}
\* a close handler that also drops the participant entries of the connection
DisconnectRoomsRemove(rs, c) ==
  [r \in DOMAIN rs |->
     [rs[r] EXCEPT !.p = [i \in (DOMAIN rs[r].p) \ {c} |-> rs[r].p[i]],
                   !.order = SeqWithout(rs[r].order, c)]]
DisconnectRooms(rs, c) == rs

\* handleDisconnect / handleClientDisconnect
HandleDisconnect(c) ==
  /\ c \in clients
  /\ c \notin sockOpen
  /\ hand[c] = None
  /\ clients' = DisconnectClients(clients, c)
  /\ rooms' = DisconnectRooms(rooms, c)
  /\ sent' = <<>>
  /\ published' = <<>>
  /\ atClose' = [atClose EXCEPT ![c] =
                   [r \in {x \in DOMAIN rooms : c \in DOMAIN rooms[x].p} |->
                      rooms[r].p[c]]]
  /\ UNCHANGED <<impl, redisUrl, roomsCreated, sockOpen, nextId, wsRoomId, hand, nmsg,
                 lastTerminal, wiped, ext,
                 joined>>

\* ---------------------------------------------------- the Node handlers
\* the join that leaves the joining connection to the broadcast, which
\* excludes it
NodeJoinRoomNoSelfSend(c, r, name) ==
  LET goc == getOrCreateRoom(rooms, roomsCreated, r)
  IN /\ wsRoomId' = [wsRoomId EXCEPT ![c] = r]
     /\ roomsCreated' = goc.created
     /\ \E oldId \in FindExisting(goc.rooms[r], name) :
          rooms' = [goc.rooms EXCEPT
                      ![r] = JoinParticipants(goc.rooms[r], c, name, oldId)]
     /\ sent' = << BroadcastToRoom(rooms', clients, sockOpen, r, "room-state",
                                   StateData(rooms'[r]), {c}) >>
     /\ published' = PublishToRedis(redisUrl, r, "room-state",
                                    StateData(rooms'[r]), {c})
     /\ HistSkip
     /\ UNCHANGED hand

NodeJoinRoom(c, r, name) ==
  LET goc == getOrCreateRoom(rooms, roomsCreated, r)
  IN /\ wsRoomId' = [wsRoomId EXCEPT ![c] = r]
     /\ roomsCreated' = goc.created
     /\ \E oldId \in FindExisting(goc.rooms[r], name) :
          rooms' = [goc.rooms EXCEPT
                      ![r] = JoinParticipants(goc.rooms[r], c, name, oldId)]
     /\ sent' = << SendToClient(sockOpen, r, c, "room-state",
                                StateData(rooms'[r])),
                   BroadcastToRoom(rooms', clients, sockOpen, r, "room-state",
                                   StateData(rooms'[r]), {c}) >>
     /\ published' = PublishToRedis(redisUrl, r, "room-state",
                                    StateData(rooms'[r]), {c})
     /\ HistSkip
     /\ UNCHANGED hand

\* a handler that creates the room it does not find
NodeHandleCreatesRoom(c, op, r, arg) ==
  LET goc == getOrCreateRoom(rooms, roomsCreated, r)
  IN /\ UNCHANGED <<wsRoomId, hand>>
     /\ roomsCreated' = goc.created
     /\ rooms' = [goc.rooms EXCEPT ![r] = Mutate(op, goc.rooms[r], c, arg)]
     /\ sent' = << BroadcastToRoom(rooms', clients, sockOpen, r,
                     MsgType(op), Payload(op, rooms'[r], c, arg), {}) >>
     /\ published' = PublishToRedis(redisUrl, r, MsgType(op),
                                    Payload(op, rooms'[r], c, arg), {})
     /\ HistApply(op, r)

\* every other Node handler: return when the room is unknown; the
\* participant operations act and emit only when the sender is a participant
NodeHandle(c, op, r, arg) ==
  LET applied == /\ r \in DOMAIN rooms
                 /\ (op \in RoomOps \/ c \in DOMAIN rooms[r].p)
  IN /\ UNCHANGED <<roomsCreated, wsRoomId, hand>>
     /\ IF applied
          THEN /\ rooms' = [rooms EXCEPT ![r] = Mutate(op, rooms[r], c, arg)]
               /\ sent' = << BroadcastToRoom(rooms', clients, sockOpen, r,
                               MsgType(op), Payload(op, rooms'[r], c, arg),
                               {}) >>
               /\ published' = PublishToRedis(redisUrl, r, MsgType(op),
                                    Payload(op, rooms'[r], c, arg), {})
               /\ HistApply(op, r)
          ELSE /\ UNCHANGED rooms
               /\ sent' = <<>>
               /\ published' = <<>>
               /\ HistSkip

\* ------------------------------------------------------ the Go handlers
\* handleJoinRoom, first critical section: ws.RoomID is set and
\* getOrCreateRoom runs under roomsMu.Lock
GoJoinReceive(c, r, name) ==
  LET goc == getOrCreateRoom(rooms, roomsCreated, r)
  IN /\ rooms' = goc.rooms
     /\ roomsCreated' = goc.created
     /\ wsRoomId' = [wsRoomId EXCEPT ![c] = r]
     /\ hand' = [hand EXCEPT ![c] =
                   Some([pc |-> "locked", op |-> "join-room", room |-> r,
                         inst |-> goc.rooms[r].inst, arg |-> name,
                         data |-> None])]
     /\ sent' = <<>>
     /\ published' = <<>>
     /\ HistSkip

\* every other Go handler: the lookup under roomsMu.RLock (return when the
\* room is unknown) and the mutation under room.mu.Lock.  No step of another
\* goroutine can fall between the two with an effect: the store never drops
\* or replaces a room, so the pointer read by the lookup stays the room's.
GoHandle(c, op, r, arg) ==
  /\ UNCHANGED <<roomsCreated, wsRoomId>>
  /\ sent' = <<>>
  /\ published' = <<>>
  /\ IF r \in DOMAIN rooms
       THEN /\ rooms' = [rooms EXCEPT ![r] = Mutate(op, rooms[r], c, arg)]
            /\ hand' = [hand EXCEPT ![c] =
                  Some([pc |-> "bcast", op |-> op, room |-> r,
                        inst |-> rooms[r].inst, arg |-> arg,
                        data |-> IF op \in StateOps THEN None
                                 ELSE Some(Payload(op, rooms'[r], c, arg))])]
            /\ HistApply(op, r)
       ELSE /\ UNCHANGED <<rooms, hand>>
            /\ HistSkip

\* handleJoinRoom, second critical section: the participant map is
\* updated under room.mu.Lock
GoJoinLocked(c) ==
  /\ impl = "go"
  /\ hand[c] # None
  /\ LET h == hand[c][1]
         r == h.room
     IN /\ h.pc = "locked"
        /\ r \in DOMAIN rooms /\ rooms[r].inst = h.inst
        /\ \E oldId \in FindExisting(rooms[r], h.arg) :
             rooms' = [rooms EXCEPT
                         ![r] = JoinParticipants(rooms[r], c, h.arg, oldId)]
        /\ hand' = [hand EXCEPT ![c] = Some([h EXCEPT !.pc = "bcast"])]
        /\ joined' = IF track THEN [joined EXCEPT ![c] = Some(rooms'[r].p)]
                               ELSE joined
  /\ sent' = <<>>
  /\ published' = <<>>
  /\ UNCHANGED <<impl, redisUrl, roomsCreated, clients, sockOpen, nextId, wsRoomId,
                 nmsg, lastTerminal, atClose, wiped, ext>>

\* last critical section of every Go handler: broadcastToRoom /
\* broadcastRoomState
GoBroadcast(c) ==
  /\ impl = "go"
  /\ hand[c] # None
  /\ LET h == hand[c][1]
         r == h.room
     IN /\ h.pc = "bcast"
        /\ sent' = IF r \in DOMAIN rooms
                     THEN << BroadcastToRoom(rooms, clients, sockOpen, r,
                               MsgType(h.op),
                               IF h.data = None THEN StateData(rooms[r])
                                                ELSE h.data[1],
                               {}) >>
                     ELSE <<>>
  /\ published' = <<>>
  /\ hand' = [hand EXCEPT ![c] = None]
  /\ joined' = [joined EXCEPT ![c] = None]
  /\ UNCHANGED <<impl, redisUrl, rooms, roomsCreated, clients, sockOpen, nextId,
                 wsRoomId, nmsg, lastTerminal, atClose, wiped, ext>>

\* ------------------------------------------------------- the heartbeat
\* the tick that probes every connection, answered or not
TickClosesNone(cl, alive) == {}
\* the connections a tick closes: the registered ones whose flag is down
TickCloses(cl, alive) == {c \in cl : ~alive[c]}

\* the ping frames of a tick
Pings(to) ==
  [kind |-> "ping", room |-> NoRoom, type |-> "ping", data |-> Null,
   exclude |-> {}, to |-> to]

\* the setInterval callback / the ticker case of startHeartbeat: every
\* connection whose flag is down is terminated, every other one has its flag
\* lowered and is pinged
Tick ==
  LET dead == TickCloses(clients, isAlive)
      rest == clients \ dead
  IN /\ nticks' = nticks + 1
     /\ sockOpen' = sockOpen \ dead
     /\ isAlive' = [c \in Conns |-> IF c \in rest THEN FALSE ELSE isAlive[c]]
     /\ probe' = [c \in Conns |->
                    IF c \in rest \cap sockOpen THEN TRUE ELSE probe[c]]
     /\ sent' = << Pings(rest \cap sockOpen) >>
     /\ published' = <<>>
     /\ hbClosed' = hbClosed \cup (dead \cap sockOpen)
     /\ since' = [c \in Conns |-> IF c \in clients THEN since[c] + 1
                                                   ELSE since[c]]
     /\ UNCHANGED <<impl, redisUrl, rooms, roomsCreated, clients, nextId, wsRoomId,
                    hand, nmsg, lastTerminal, atClose, wiped, recv, track,
                    joined, lockVars, sideVars>>

\* ws.on("pong") / the pong handler: the peer answers the ping it holds
Pong(c) ==
  /\ c \in clients
  /\ c \in sockOpen
  /\ probe[c]
  /\ isAlive' = [isAlive EXCEPT ![c] = TRUE]
  /\ probe' = [probe EXCEPT ![c] = FALSE]
  /\ since' = [since EXCEPT ![c] = 0]
  /\ sent' = <<>>
  /\ published' = <<>>
  /\ UNCHANGED <<impl, redisUrl, rooms, roomsCreated, clients, sockOpen, nextId,
                 wsRoomId, hand, nmsg, lastTerminal, atClose, wiped, recv,
                 track, joined, lockVars, hbClosed, nticks, sideVars>>

\* ------------------------------------------------- message dispatching
\* a message whose handler returns without touching anything
Ignored(c, op, r) ==
  /\ op # "join-room"
  /\ \/ r \notin DOMAIN rooms
     \/ impl = "node" /\ op \in ParticipantOps /\ c \notin DOMAIN rooms[r].p

\* handleMessage: one client message is read from an open connection and
\* dispatched on its type
Handle(c, op, r, arg) ==
  /\ c \in clients
  /\ c \in sockOpen
  /\ hand[c] = None
  /\ nmsg' = IF Ignored(c, op, r) THEN nmsg ELSE nmsg + 1
  /\ CASE impl = "node" /\ op = "join-room" -> NodeJoinRoom(c, r, arg)
       [] impl = "node" /\ op # "join-room" -> NodeHandle(c, op, r, arg)
       [] impl = "go" /\ op = "join-room" -> GoJoinReceive(c, r, arg)
       [] impl = "go" /\ op # "join-room" -> GoHandle(c, op, r, arg)
  /\ UNCHANGED <<impl, redisUrl, clients, sockOpen, nextId, atClose, ext,
                 joined>>

HandleJoinRoom(c, r, name) == Handle(c, "join-room", r, name)
HandleVote(c, r, v) == Handle(c, "vote", r, v)
HandleReveal(c, r) == Handle(c, "reveal", r, Null)
HandleReestimate(c, r) == Handle(c, "reestimate", r, Null)
HandleReset(c, r) == Handle(c, "reset", r, Null)
HandleUpdateStory(c, r, s) == Handle(c, "update-story", r, s)
HandleSuspendVoting(c, r) == Handle(c, "suspend-voting", r, Null)
HandleResumeVoting(c, r) == Handle(c, "resume-voting", r, Null)
HandleUpdateName(c, r, name) == Handle(c, "update-name", r, name)

\* ---------------------------------------------------- message decoding
\* the message types handleMessage has a case for
KnownTypes == {"join-room"} \cup ParticipantOps \cup RoomOps
MsgTypes == KnownTypes \cup {"unknown-type"}

\* the values a client may put in the second field of a message: the
\* well-typed ones and a value of another JSON type
FieldVals(type) ==
  CASE type \in {"join-room", "update-name"} -> Names \cup {NotAString}
    [] type = "vote" -> VoteVals \cup {NotAString}
    [] type = "update-story" -> StoryVals \cup {NotAString}
    [] OTHER -> {Null}

\* Go: x, _ := data[key].(string) yields "" for a value that is no string
GoString(v) == IF v = NotAString THEN "" ELSE v

\* the room key the handler looks up: Node uses the value as it came
DecodeRoom(r) == IF impl = "go" THEN GoString(r) ELSE r

\* the field value the handler works with: Node uses the value as it came
\* (story ?? null keeps a value that is not null); Go asserts the type and
\* falls back to "" for strings and to nil for the story object
DecodeArg(type, arg) ==
  IF impl = "node" THEN arg
  ELSE IF type = "update-story"
         THEN (IF arg = NotAString THEN Null ELSE arg)
         ELSE GoString(arg)

\* the messages that reach no handler body: an unknown type (default
\* branch), no data object (Go: the type assertion fails; Node: the
\* destructuring throws into the catch of the message callback), and in
\* Go a join-room whose roomId is no string
Dropped(type, r) ==
  \/ type \notin KnownTypes
  \/ r = NoData
  \/ impl = "go" /\ type = "join-room" /\ r = NotAString

\* ws.on("message") / the read loop of handleWebSocket: one message of any
\* shape is read from an open connection, decoded and dispatched
Receive(c, type, r, arg) ==
  /\ c \in clients
  /\ c \in sockOpen
  /\ hand[c] = None
  /\ recv' = Some([conn |-> c, type |-> type, roomId |-> r, arg |-> arg])
  /\ nmsg' = nmsg + 1
  /\ IF Dropped(type, r)
       THEN /\ sent' = <<>>
            /\ published' = <<>>
            /\ UNCHANGED <<rooms, roomsCreated, wsRoomId, hand>>
            /\ HistSkip
       ELSE LET k == DecodeRoom(r)
                a == DecodeArg(type, arg)
            IN CASE impl = "node" /\ type = "join-room" -> NodeJoinRoom(c, k, a)
                 [] impl = "node" /\ type # "join-room" ->
                      NodeHandle(c, type, k, a)
                 [] impl = "go" /\ type = "join-room" -> GoJoinReceive(c, k, a)
                 [] impl = "go" /\ type # "join-room" -> GoHandle(c, type, k, a)
  /\ UNCHANGED <<impl, redisUrl, clients, sockOpen, nextId, atClose, extNoRecv, joined>>

\* the bridge subscriber: a tuple published on ws-broadcast is handed to the
\* local broadcastToRoom
RedisMessage(r, type, excl) ==
  /\ nmsg' = nmsg + 1
  /\ sent' = << BroadcastToRoom(rooms, clients, sockOpen, r, type,
                                [remote |-> TRUE], excl) >>
  /\ published' = <<>>
  /\ UNCHANGED <<impl, redisUrl, rooms, roomsCreated, clients, sockOpen, nextId,
                 wsRoomId, hand, lastTerminal, atClose, wiped, ext,
                 joined>>

\* ------------------------------------------------------ specifications
\* Spec: the whole protocol on two rooms, with the bridge subscriber.
Next ==
  \/ Connect(MaxConns)
  \/ \E c \in Conns : Close(c)
  \/ \E c \in Conns : HandleDisconnect(c)
  \/ \E c \in Conns, r \in RoomIds, n \in Names :
       nmsg < MaxMsgs /\ HandleJoinRoom(c, r, n)
  \/ \E c \in Conns, r \in RoomIds, v \in VoteVals :
       nmsg < MaxMsgs /\ HandleVote(c, r, v)
  \/ \E c \in Conns, r \in RoomIds : nmsg < MaxMsgs /\ HandleReveal(c, r)
  \/ \E c \in Conns, r \in RoomIds : nmsg < MaxMsgs /\ HandleReestimate(c, r)
  \/ \E c \in Conns, r \in RoomIds : nmsg < MaxMsgs /\ HandleReset(c, r)
  \/ \E c \in Conns, r \in RoomIds, s \in StoryVals :
       nmsg < MaxMsgs /\ HandleUpdateStory(c, r, s)
  \/ \E c \in Conns, r \in RoomIds :
       nmsg < MaxMsgs /\ HandleSuspendVoting(c, r)
  \/ \E c \in Conns, r \in RoomIds :
       nmsg < MaxMsgs /\ HandleResumeVoting(c, r)
  \/ \E c \in Conns, r \in RoomIds, n \in Names :
       nmsg < MaxMsgs /\ HandleUpdateName(c, r, n)
  \/ \E c \in Conns : GoJoinLocked(c)
  \/ \E c \in Conns : GoBroadcast(c)
  \/ \E r \in RoomIds, e \in {{}} \cup {{c} : c \in Conns} :
       nmsg < MaxMsgs /\ RedisMessage(r, "room-state", e)

Spec == Init /\ [][Next]_vars

\* the server started with REDIS_URL set
InitBridge == InitState /\ track = FALSE /\ redisUrl = TRUE

SpecBridge == InitBridge /\ [][Next]_vars

\* ------------------------------------------- the clients of a room
\* the step whose sends are the value of sent
Stamp == <<nmsg, hand, sent>>
\* messages were written that the clients have not handled yet
Pending == sent # <<>> /\ vstamp # Stamp

\* the messages of the last step arrive and every client handles its own
ClientReceive ==
  /\ Pending
  /\ view' = [c \in Conns |-> ClientHandleAll(view[c], sent, c, Len(sent))]
  /\ vstamp' = Stamp
  /\ UNCHANGED <<clusterVars, idVars, mainVars>>

\* one instance, one room, every message delivered before the next step
NextView ==
  \/ ~Pending /\ Connect(MaxConnsView)
  \/ \E c \in Conns : ~Pending /\ Close(c)
  \/ \E c \in Conns : ~Pending /\ HandleDisconnect(c)
  \/ \E c \in Conns, n \in Names :
       ~Pending /\ nmsg < MaxMsgsView /\ HandleJoinRoom(c, TheRoom, n)
  \/ \E c \in Conns, v \in VoteVals :
       ~Pending /\ nmsg < MaxMsgsView /\ HandleVote(c, TheRoom, v)
  \/ \E c \in Conns :
       ~Pending /\ nmsg < MaxMsgsView /\ HandleReveal(c, TheRoom)
  \/ \E c \in Conns :
       ~Pending /\ nmsg < MaxMsgsView /\ HandleReestimate(c, TheRoom)
  \/ \E c \in Conns :
       ~Pending /\ nmsg < MaxMsgsView /\ HandleReset(c, TheRoom)
  \/ \E c \in Conns, st \in StoryVals :
       ~Pending /\ nmsg < MaxMsgsView /\ HandleUpdateStory(c, TheRoom, st)
  \/ \E c \in Conns : ~Pending /\ GoJoinLocked(c)
  \/ \E c \in Conns : ~Pending /\ GoBroadcast(c)
  \/ ClientReceive

SpecView == Init /\ [][NextView]_vars

\* ------------------------------------------------- connection ids
\* generateId / generateID.  Node: 11 characters of Math.random() in base
\* 36, taken as a value no earlier call returned.  Go: the wall clock
\* formatted to the microsecond, followed by the HOSTNAME of the process:
\* one value per microsecond.
GenerateId(clock, n) ==
  IF impl = "node" THEN <<"random", n>> ELSE <<"time", clock>>

\* time passes
ClockTick ==
  /\ now < MaxClock
  /\ now' = now + 1
  /\ UNCHANGED <<nsock, sockId, live, registry, clusterVars, viewVars, mainVars>>

\* wss.on("connection") / handleWebSocket: the id is generated and the
\* connection is stored in the clients map under it
Accept ==
  /\ nsock < MaxSockets
  /\ nsock' = nsock + 1
  /\ LET id == GenerateId(now, nsock')
     IN /\ sockId' = Append(sockId, id)
        /\ registry' = (id :> nsock') @@ registry
  /\ live' = live \cup {nsock'}
  /\ UNCHANGED <<now, clusterVars, viewVars, mainVars>>

\* handleDisconnect / handleClientDisconnect: clients.delete(ws.id)
Deregister(k) ==
  /\ k \in live
  /\ live' = live \ {k}
  /\ registry' = [i \in (DOMAIN registry) \ {sockId[k]} |-> registry[i]]
  /\ UNCHANGED <<now, nsock, sockId, clusterVars, viewVars, mainVars>>

NextIds ==
  \/ ClockTick
  \/ Accept
  \/ \E k \in 1..MaxSockets : Deregister(k)

SpecIds == Init /\ [][NextIds]_vars

\* ------------------------------------------- instances on one channel
\* Every instance has its own rooms and clients maps and a subscriber on
\* "ws-broadcast"; the channel hands every published message to every
\* subscriber, the one of the publishing instance included.  A handler is
\* one step here.
ClusterRegistered == UNION {cclients[i] : i \in Instances}

\* an instance accepts a connection
ClusterConnect(i) ==
  /\ Cardinality(ClusterRegistered) < MaxConnsCluster
  /\ cclients' = [cclients EXCEPT
                    ![i] = @ \cup {Cardinality(ClusterRegistered) + 1}]
  /\ cdeliv' = <<>>
  /\ UNCHANGED <<cstore, ccreated, cqueue, cgot, cbid, idVars, viewVars, mainVars>>

\* the sends of one step: step id, instance, message
Delivered(b, i, sends) ==
  [k \in DOMAIN sends |-> [bid |-> b, at |-> i, msg |-> sends[k]]]
GotPairs(dl) ==
  UNION {{<<dl[k].bid, c>> : c \in dl[k].msg.to} : k \in DOMAIN dl}
\* publish: the message joins the queue of every subscriber
Enqueue(q, i, b, pubs) ==
  [j \in Instances |->
     q[j] \o [k \in DOMAIN pubs |-> [bid |-> b, from |-> i, msg |-> pubs[k]]]]

\* handleJoinRoom on instance i
ClusterJoin(i, c, r, name) ==
  LET goc == getOrCreateRoom(cstore[i], ccreated[i], r)
      cl == cclients[i]
  IN /\ c \in cl
     /\ cbid < MaxMsgsCluster
     /\ cbid' = cbid + 1
     /\ ccreated' = [ccreated EXCEPT ![i] = goc.created]
     /\ \E oldId \in FindExisting(goc.rooms[r], name) :
          cstore' = [cstore EXCEPT ![i] = [goc.rooms EXCEPT
                       ![r] = JoinParticipants(goc.rooms[r], c, name, oldId)]]
     /\ LET rs == cstore'[i]
            data == StateData(rs[r])
        IN IF impl = "node"
             THEN /\ cdeliv' = Delivered(cbid', i,
                       << SendToClient(cl, r, c, "room-state", data),
                          BroadcastToRoom(rs, cl, cl, r, "room-state", data,
                                          {c}) >>)
                  /\ cqueue' = Enqueue(cqueue, i, cbid',
                       PublishToRedis(TRUE, r, "room-state", data, {c}))
             ELSE /\ cdeliv' = Delivered(cbid', i,
                       << BroadcastToRoom(rs, cl, cl, r, "room-state", data,
                                          {}) >>)
                  /\ UNCHANGED cqueue
     /\ cgot' = cgot \cup GotPairs(cdeliv')
     /\ UNCHANGED <<cclients, idVars, viewVars, mainVars>>

\* every other handler on instance i
ClusterHandle(i, c, op, r, arg) ==
  LET rs == cstore[i]
      cl == cclients[i]
      applied == /\ r \in DOMAIN rs
                 /\ (impl = "go" \/ op \in RoomOps \/ c \in DOMAIN rs[r].p)
  IN /\ c \in cl
     /\ cbid < MaxMsgsCluster
     /\ cbid' = cbid + 1
     /\ IF applied
          THEN LET rs1 == [rs EXCEPT ![r] = Mutate(op, rs[r], c, arg)]
                   data == Payload(op, rs1[r], c, arg)
               IN /\ cstore' = [cstore EXCEPT ![i] = rs1]
                  /\ cdeliv' = Delivered(cbid', i,
                       << BroadcastToRoom(rs1, cl, cl, r, MsgType(op), data,
                                          {}) >>)
                  /\ cqueue' = IF impl = "node"
                                 THEN Enqueue(cqueue, i, cbid',
                                        PublishToRedis(TRUE, r, MsgType(op),
                                                       data, {}))
                                 ELSE cqueue
          ELSE /\ cdeliv' = <<>>
               /\ UNCHANGED <<cstore, cqueue>>
     /\ cgot' = cgot \cup GotPairs(cdeliv')
     /\ UNCHANGED <<ccreated, cclients, idVars, viewVars, mainVars>>

\* the subscriber of instance i reads a message and calls broadcastToRoom
ClusterDeliver(i) ==
  /\ cqueue[i] # <<>>
  /\ LET m == Head(cqueue[i])
     IN cdeliv' = Delivered(m.bid, i,
          << BroadcastToRoom(cstore[i], cclients[i], cclients[i], m.msg.room,
                             m.msg.type, m.msg.data, m.msg.exclude) >>)
  /\ cqueue' = [cqueue EXCEPT ![i] = Tail(@)]
  /\ cgot' = cgot \cup GotPairs(cdeliv')
  /\ UNCHANGED <<cstore, ccreated, cclients, cbid, idVars, viewVars, mainVars>>

NextCluster ==
  \/ \E i \in Instances : ClusterConnect(i)
  \/ \E i \in Instances, c \in ClusterConns, n \in Names :
       ClusterJoin(i, c, TheRoom, n)
  \/ \E i \in Instances, c \in ClusterConns, op \in ClusterOps :
       \E arg \in (IF op = "vote" THEN VoteVals ELSE {Null}) :
         ClusterHandle(i, c, op, TheRoom, arg)
  \/ \E i \in Instances : ClusterDeliver(i)

SpecCluster == InitBridge /\ [][NextCluster]_vars

\* the participants of the logical room r: what the instances serving r hold
LogicalRoom(r) ==
  UNION {IF r \in DOMAIN cstore[j] THEN DOMAIN cstore[j][r].p ELSE {} :
           j \in Instances}
\* the vote the logical room r holds for participant c
LogicalVote(r, c) ==
  LET j == CHOOSE j \in Instances :
             r \in DOMAIN cstore[j] /\ c \in DOMAIN cstore[j][r].p
  IN cstore[j][r].p[c].vote

\* SpecReconnect: one room and the operations that create, move or change
\* participant entries, with one more connection and one more message.
NextReconnect ==
  \/ Connect(MaxConnsReconnect)
  \/ \E c \in Conns : Close(c)
  \/ \E c \in Conns : HandleDisconnect(c)
  \/ \E c \in Conns, n \in Names :
       nmsg < MaxMsgsReconnect /\ HandleJoinRoom(c, TheRoom, n)
  \/ \E c \in Conns, v \in VoteVals :
       nmsg < MaxMsgsReconnect /\ HandleVote(c, TheRoom, v)
  \/ \E c \in Conns : nmsg < MaxMsgsReconnect /\ HandleReestimate(c, TheRoom)
  \/ \E c \in Conns : nmsg < MaxMsgsReconnect /\ HandleReset(c, TheRoom)
  \/ \E c \in Conns :
       nmsg < MaxMsgsReconnect /\ HandleSuspendVoting(c, TheRoom)
  \/ \E c \in Conns :
       nmsg < MaxMsgsReconnect /\ HandleResumeVoting(c, TheRoom)
  \/ \E c \in Conns, n \in Names :
       nmsg < MaxMsgsReconnect /\ HandleUpdateName(c, TheRoom, n)
  \/ \E c \in Conns : GoJoinLocked(c)
  \/ \E c \in Conns : GoBroadcast(c)

SpecReconnect == Init /\ [][NextReconnect]_vars

\* SpecVotes: one room under concurrent joins, votes and reveals (and the
\* broadcasts they end with); no connection closes.
NextVotes ==
  \/ Connect(MaxConnsReconnect)
  \/ \E c \in Conns, n \in Names :
       nmsg < MaxMsgsReconnect /\ HandleJoinRoom(c, TheRoom, n)
  \/ \E c \in Conns, v \in VoteVals :
       nmsg < MaxMsgsReconnect /\ HandleVote(c, TheRoom, v)
  \/ \E c \in Conns : nmsg < MaxMsgsReconnect /\ HandleReveal(c, TheRoom)
  \/ \E c \in Conns : GoJoinLocked(c)
  \/ \E c \in Conns : GoBroadcast(c)

SpecVotes == Init /\ [][NextVotes]_vars

\* SpecRound: the life of a round on one room: every operation of the
\* protocol, with fewer connections and more messages.
NextRound ==
  \/ Connect(MaxConnsRound)
  \/ \E c \in Conns : Close(c)
  \/ \E c \in Conns : HandleDisconnect(c)
  \/ \E c \in Conns, n \in Names :
       nmsg < MaxMsgsRound /\ HandleJoinRoom(c, TheRoom, n)
  \/ \E c \in Conns, v \in VoteVals :
       nmsg < MaxMsgsRound /\ HandleVote(c, TheRoom, v)
  \/ \E c \in Conns : nmsg < MaxMsgsRound /\ HandleReveal(c, TheRoom)
  \/ \E c \in Conns : nmsg < MaxMsgsRound /\ HandleReestimate(c, TheRoom)
  \/ \E c \in Conns : nmsg < MaxMsgsRound /\ HandleReset(c, TheRoom)
  \/ \E c \in Conns, st \in StoryVals :
       nmsg < MaxMsgsRound /\ HandleUpdateStory(c, TheRoom, st)
  \/ \E c \in Conns : nmsg < MaxMsgsRound /\ HandleSuspendVoting(c, TheRoom)
  \/ \E c \in Conns : nmsg < MaxMsgsRound /\ HandleResumeVoting(c, TheRoom)
  \/ \E c \in Conns, n \in Names :
       nmsg < MaxMsgsRound /\ HandleUpdateName(c, TheRoom, n)
  \/ \E c \in Conns : GoJoinLocked(c)
  \/ \E c \in Conns : GoBroadcast(c)

SpecRound == Init /\ [][NextRound]_vars

\* SpecMessages: two rooms and messages of every shape: every type, with
\* well-typed and mistyped fields, and unknown types.
NextMessages ==
  \/ Connect(MaxConnsMessages)
  \/ \E c \in Conns : Close(c)
  \/ \E c \in Conns : HandleDisconnect(c)
  \/ \E c \in Conns, type \in MsgTypes,
        r \in RoomIds \cup {NotAString, NoData} :
       \E arg \in FieldVals(type) :
         nmsg < MaxMsgsMessages /\ Receive(c, type, r, arg)
  \/ \E c \in Conns : GoJoinLocked(c)
  \/ \E c \in Conns : GoBroadcast(c)

SpecMessages == Init /\ [][NextMessages]_vars

\* SpecJoin: joins and votes of three connections on one room, with the
\* participants each pending Go join left behind on record.
NextJoin ==
  \/ Connect(MaxConnsJoin)
  \/ \E c \in Conns : Close(c)
  \/ \E c \in Conns : HandleDisconnect(c)
  \/ \E c \in Conns, n \in Names :
       nmsg < MaxMsgsJoin /\ HandleJoinRoom(c, TheRoom, n)
  \/ \E c \in Conns, v \in VoteVals :
       nmsg < MaxMsgsJoin /\ HandleVote(c, TheRoom, v)
  \/ \E c \in Conns : GoJoinLocked(c)
  \/ \E c \in Conns : GoBroadcast(c)

SpecJoin == InitTracked /\ [][NextJoin]_vars

\* SpecHeartbeat: connections of one room under the heartbeat: they join,
\* vote, answer pings or not, close or get closed.
NextHeartbeat ==
  \/ Connect(MaxConnsHeartbeat)
  \/ \E c \in Conns : Close(c)
  \/ \E c \in Conns : HandleDisconnect(c)
  \/ \E c \in Conns, n \in Names :
       nmsg < MaxMsgsHeartbeat /\ HandleJoinRoom(c, TheRoom, n)
  \/ \E c \in Conns, v \in VoteVals :
       nmsg < MaxMsgsHeartbeat /\ HandleVote(c, TheRoom, v)
  \/ \E c \in Conns : GoJoinLocked(c)
  \/ \E c \in Conns : GoBroadcast(c)
  \/ nticks < MaxTicks /\ Tick
  \/ \E c \in Conns : Pong(c)

SpecHeartbeat == Init /\ [][NextHeartbeat]_vars

\* SpecLocks: the goroutines of the Go server as sequences of lock
\* operations and sends, over two rooms.
InitLocks == InitState /\ track = FALSE /\ redisUrl = FALSE /\ impl = "go"

NextLocks ==
  \/ \E t \in LThreads : \E p \in Progs(t) : LStart(t, p)
  \/ \E t \in LThreads : LRLock(t)
  \/ \E t \in LThreads : LLockRequest(t)
  \/ \E t \in LThreads : LLockAcquire(t)
  \/ \E t \in LThreads : LUnlock(t)
  \/ \E t \in LThreads : LJoin(t)
  \/ \E t \in LThreads : LRUnlock(t)
  \/ \E t \in LThreads : LFind(t)
  \/ \E t \in LThreads : LCreate(t)
  \/ \E t \in LThreads : LClear(t)
  \/ \E t \in LThreads : LSend(t)
  \/ \E t \in LThreads : LRegister(t)
  \/ \E t \in LThreads : LDeregister(t)
  \/ \E t \in LThreads, silent \in SUBSET Handlers : LProbe(t, silent)
  \/ \E t \in LThreads : LCloseAll(t)

SpecLocks == InitLocks /\ [][NextLocks]_vars

\* one step of goroutine t inside the handler, tick or shutdown it runs
LStep(t) ==
  \/ LRLock(t)
  \/ LLockRequest(t)
  \/ LLockAcquire(t)
  \/ LUnlock(t)
  \/ LJoin(t)
  \/ LRUnlock(t)
  \/ LFind(t)
  \/ LCreate(t)
  \/ LClear(t)
  \/ LSend(t)
  \/ LRegister(t)
  \/ LDeregister(t)
  \/ (\E silent \in SUBSET Handlers : LProbe(t, silent))
  \/ LCloseAll(t)

\* handleWebSocket: ReadJSON fails on a socket the server closed, the read
\* loop breaks and the deferred handleClientDisconnect starts
LReadFails(t) ==
  /\ t \in shut
  /\ \E p \in Progs(t) : p.kind = "disconnect" /\ LStart(t, p)

\* the read loops and the heartbeat, while the server is up and no bridge
\* is configured
Serving == Handlers \cup {"hb"}

NextServing ==
  \/ \E t \in Serving : \E p \in Progs(t) : LStart(t, p)
  \/ \E t \in Serving : LRLock(t)
  \/ \E t \in Serving : LLockRequest(t)
  \/ \E t \in Serving : LLockAcquire(t)
  \/ \E t \in Serving : LUnlock(t)
  \/ \E t \in Serving : LJoin(t)
  \/ \E t \in Serving : LRUnlock(t)
  \/ \E t \in Serving : LFind(t)
  \/ \E t \in Serving : LCreate(t)
  \/ \E t \in Serving : LSend(t)
  \/ \E t \in Serving : LRegister(t)
  \/ \E t \in Serving : LDeregister(t)
  \/ \E t \in Serving, silent \in SUBSET Handlers : LProbe(t, silent)

\* The Go scheduler runs every goroutine that can run, sync.RWMutex hands
\* the lock to a waiter that can repeatedly take it, and a read on a
\* closed socket returns.
FairLocks ==
  /\ \A t \in Serving : SF_vars(LStep(t))
  /\ \A t \in Handlers : WF_vars(LReadFails(t))

SpecLocksFair == InitLocks /\ [][NextServing]_vars /\ FairLocks

\* ------------------------------------------------------- step predicates
\* the step at which the join-room of connection c for room r under name n
\* updates the participant map of r
JoinStep(c, r, n) ==
  \/ impl = "node" /\ HandleJoinRoom(c, r, n)
  \/ /\ impl = "go"
     /\ hand[c] # None
     /\ hand[c][1].room = r
     /\ hand[c][1].arg = n
     /\ GoJoinLocked(c)

\* JoinStep of a connection c that holds no participant entry yet, where o
\* is a connection that disconnected while it was the participant named n of
\* room r
Rejoins(c, r, n, o) ==
  /\ o \in Gone
  /\ o # c
  /\ \A x \in DOMAIN rooms : c \notin DOMAIN rooms[x].p
  /\ r \in DOMAIN atClose[o]
  /\ atClose[o][r].name = n
  /\ JoinStep(c, r, n)

\* the ids of the participants of a room that carry name n
Named(room, n) == {i \in DOMAIN room.p : room.p[i].name = n}

\* the participants of room r whose connection is registered and open
Live(r) ==
  IF r \in DOMAIN rooms
    THEN {i \in DOMAIN rooms[r].p : i \in clients /\ i \in sockOpen}
    ELSE {}

\* ------------------------------------------------------------------ C1
\* C1: in every reachable state a room that is revealed has a lastRound
\* snapshot (revealed = true implies lastRound # null).
C1_RevealedHasLastRound ==
  \A r \in DOMAIN rooms : rooms[r].revealed => rooms[r].lastRound # None

C1_Witness ==
  \E r \in DOMAIN rooms :
    /\ rooms[r].revealed
    /\ rooms[r].lastRound # None
    /\ DOMAIN rooms[r].p # {}

\* ------------------------------------------------------------------ C2
\* C2: a room is revealed exactly when the most recent of reveal,
\* reestimate and reset applied to it was reveal (not revealed when none was
\* applied); no other operation changes revealed.
C2_RevealedIffLastTerminalReveal ==
  \A r \in DOMAIN rooms : rooms[r].revealed = (lastTerminal[r] = "reveal")

C2_Witness ==
  \E r \in DOMAIN rooms :
    /\ lastTerminal[r] = "reestimate"
    /\ ~rooms[r].revealed
    /\ rooms[r].lastRound # None

\* ------------------------------------------------------------------ C3
\* C3 as stated: a participant that voted, disconnected and joins the same
\* room under the same name from a new connection, with no reset since the
\* disconnect, is present under the new id with the vote and the paused flag
\* it had at the disconnect.
C3_AsStated ==
  [][\A o \in Gone : \A r \in DOMAIN atClose[o] : \A c \in Conns, n \in Names :
       ( /\ Rejoins(c, r, n, o)
         /\ atClose[o][r].vote \notin {Null, ""}
         /\ wiped[o][r] # "reset" )
       => /\ c \in DOMAIN rooms'[r].p
          /\ rooms'[r].p[c].vote = atClose[o][r].vote
          /\ rooms'[r].p[c].paused = atClose[o][r].paused]_vars

\* C3 amended: ... with no reset and no reestimate since the disconnect and
\* with the entry of the old connection still the only participant of that
\* name in the room, the participant is present under the new id with the
\* vote and the paused flag it had at the disconnect.
C3_RejoinRestores ==
  [][\A o \in Gone : \A r \in DOMAIN atClose[o] : \A c \in Conns, n \in Names :
       ( /\ Rejoins(c, r, n, o)
         /\ atClose[o][r].vote \notin {Null, ""}
         /\ wiped[o][r] = "none"
         /\ Named(rooms[r], n) = {o} )
       => /\ c \in DOMAIN rooms'[r].p
          /\ rooms'[r].p[c].vote = atClose[o][r].vote
          /\ rooms'[r].p[c].paused = atClose[o][r].paused]_vars

C3_Witness ==
  \E c \in clients, o \in Gone, r \in DOMAIN rooms :
    /\ c # o
    /\ r \in DOMAIN atClose[o]
    /\ atClose[o][r].vote = "5"
    /\ atClose[o][r].paused
    /\ wiped[o][r] = "none"
    /\ o \notin DOMAIN rooms[r].p
    /\ c \in DOMAIN rooms[r].p
    /\ rooms[r].p[c] = atClose[o][r]

\* ------------------------------------------------------------------ C4
\* C4 as stated: after join(R, n) on one connection, its disconnect and
\* join(R, n) on a new connection, R holds exactly one participant named n,
\* keyed by the new id, and no entry keyed by the old id.
C4_AsStated ==
  [][\A o \in Gone : \A r \in DOMAIN atClose[o] : \A c \in Conns, n \in Names :
       Rejoins(c, r, n, o)
       => /\ Named(rooms'[r], n) = {c}
          /\ o \notin DOMAIN rooms'[r].p]_vars

\* C4 amended: ... provided the entry of the old connection is the only
\* participant of R named n when the new connection joins, R then holds
\* exactly one participant named n, keyed by the new id, and no entry keyed
\* by the old id.
C4_RejoinReplaces ==
  [][\A o \in Gone : \A r \in DOMAIN atClose[o] : \A c \in Conns, n \in Names :
       (Rejoins(c, r, n, o) /\ Named(rooms[r], n) = {o})
       => /\ Named(rooms'[r], n) = {c}
          /\ o \notin DOMAIN rooms'[r].p]_vars

C4_Witness ==
  \E c \in clients, o \in Gone, r \in DOMAIN rooms :
    /\ c # o
    /\ r \in DOMAIN atClose[o]
    /\ o \notin DOMAIN rooms[r].p
    /\ Named(rooms[r], atClose[o][r].name) = {c}
    /\ Cardinality(DOMAIN rooms[r].p) = 2

\* ------------------------------------------------------------------ C5
\* C5 as stated: when an open connection c2 joins a room under the name of
\* a participant whose connection c1 is still open, the room holds both as
\* distinct participants and the entry of c1 is left as it was.
C5_AsStated ==
  [][\A c1 \in Conns, c2 \in Conns, r \in RoomIds, n \in Names :
       ( /\ c1 # c2
         /\ c1 \in clients /\ c1 \in sockOpen
         /\ r \in DOMAIN rooms
         /\ c1 \in DOMAIN rooms[r].p
         /\ rooms[r].p[c1].name = n
         /\ JoinStep(c2, r, n) )
       => /\ c1 \in DOMAIN rooms'[r].p
          /\ c2 \in DOMAIN rooms'[r].p
          /\ rooms'[r].p[c1] = rooms[r].p[c1]]_vars

C7_AsStated ==
  \A i \in DOMAIN sent : \A c \in sent[i].to : wsRoomId[c] = sent[i].room

\* ------------------------------------------------------------------ C8
\* C8: a broadcast for room R whose exclude id is a live participant of R
\* is delivered to every other live participant of R and not to the
\* excluded one: exactly one recipient is suppressed.
C8_ExcludeSuppressesOne ==
  \A i \in DOMAIN sent :
    LET e == sent[i]
    IN ( /\ e.kind = "broadcast"
         /\ e.exclude # {}
         /\ e.exclude \subseteq Live(e.room) )
       => /\ e.to = Live(e.room) \ e.exclude
          /\ Cardinality(e.to) = Cardinality(Live(e.room)) - 1

C8_Witness ==
  \E i \in DOMAIN sent :
    /\ sent[i].kind = "broadcast"
    /\ sent[i].exclude # {}
    /\ sent[i].exclude \subseteq Live(sent[i].room)
    /\ sent[i].to # {}

\* ------------------------------------------------------------------ C9
\* C9 as stated: a connection id is a participant key of at most one room.
C9_AsStated ==
  \A c \in Conns :
    Cardinality({r \in DOMAIN rooms : c \in DOMAIN rooms[r].p}) <= 1

\* ----------------------------------------------------------------- C10
\* C10: every getOrCreate of one id yields the same room object: a room in
\* the store is never dropped, replaced or re-initialised, the handlers in
\* flight hold the object the store holds, and exactly one object was
\* allocated per id in the store.
C10_OneRoomPerId ==
  [][/\ \A r \in DOMAIN rooms :
          /\ r \in DOMAIN rooms'
          /\ rooms'[r].inst = rooms[r].inst
     /\ roomsCreated' = Cardinality(DOMAIN rooms')
     /\ \A c \in Conns :
          hand'[c] # None
            => /\ hand'[c][1].room \in DOMAIN rooms'
               /\ rooms'[hand'[c][1].room].inst = hand'[c][1].inst
     /\ \A c \in Conns, r \in DOMAIN rooms, n \in Names :
          HandleJoinRoom(c, r, n)
            => /\ rooms'[r].revealed = rooms[r].revealed
               /\ rooms'[r].story = rooms[r].story
               /\ rooms'[r].lastRound = rooms[r].lastRound]_vars

C10_Witness ==
  \E c1 \in Conns, c2 \in Conns :
    /\ c1 # c2
    /\ hand[c1] # None /\ hand[c2] # None
    /\ hand[c1][1].pc = "locked" /\ hand[c2][1].pc = "locked"
    /\ hand[c1][1].room = hand[c2][1].room
    /\ hand[c1][1].inst = hand[c2][1].inst
    /\ roomsCreated = 1


\* ----------------------------------------------------------------- C11
\* C11 as stated: under any interleaving of votes, joins, reveals and
\* broadcasts on one room, every joined connection keeps its participant
\* entry (name and paused flag as before) and its vote changes only at its
\* own vote, to the value it sent: when all handlers have finished each
\* vote is the value sent last.  A step in which the connection itself joins
\* again is left out.
C11_AsStated ==
  [][\A r \in DOMAIN rooms : \A c \in DOMAIN rooms[r].p :
       (c \in clients /\ ~(\E n \in Names : JoinStep(c, r, n)))
       => /\ c \in DOMAIN rooms'[r].p
          /\ rooms'[r].p[c].name = rooms[r].p[c].name
          /\ rooms'[r].p[c].paused = rooms[r].p[c].paused
          /\ \/ rooms'[r].p[c].vote = rooms[r].p[c].vote
             \/ \E v \in VoteVals :
                  HandleVote(c, r, v) /\ rooms'[r].p[c].vote = v]_vars

\* ----------------------------------------------------------------- C12
\* C12 as stated: a vote of a participant of R sets that participant's
\* vote to the value sent and changes nothing else in any room; a vote of
\* the empty string counts as no vote: hasVote is false and the number of
\* ready participants is the one a null vote would give.
C12_AsStated ==
  [][\A c \in Conns, r \in DOMAIN rooms, v \in VoteVals :
       (c \in DOMAIN rooms[r].p /\ HandleVote(c, r, v))
       => /\ rooms' = [rooms EXCEPT ![r].p[c].vote = v]
          /\ v = ""
               => /\ ~Payload("vote", rooms'[r], c, v).hasVote
                  /\ votedCount(rooms'[r].p)
                       = votedCount([rooms'[r].p EXCEPT ![c].vote = Null])]_vars

\* ----------------------------------------------------------------- C13
\* C13: every participant-voted message carries the fields id and hasVote
\* and no other; the one a vote produces carries the voter's id and hasVote
\* true exactly when the vote sent is a non-empty string.
C13_VotedPayload ==
  [][/\ \A i \in DOMAIN sent' :
          sent'[i].type = "participant-voted"
            => DOMAIN sent'[i].data = {"id", "hasVote"}
     /\ \A c \in Conns, r \in DOMAIN rooms, v \in VoteVals :
          (impl = "node" /\ c \in DOMAIN rooms[r].p /\ HandleVote(c, r, v))
            => /\ Len(sent') = 1
               /\ sent'[1].type = "participant-voted"
               /\ sent'[1].room = r
               /\ sent'[1].data = [id |-> c, hasVote |-> v # ""]
     /\ \A c \in Conns :
          (hand[c] # None /\ hand[c][1].op = "vote" /\ GoBroadcast(c))
            => /\ Len(sent') = 1
               /\ sent'[1].type = "participant-voted"
               /\ sent'[1].room = hand[c][1].room
               /\ sent'[1].data =
                    [id |-> c, hasVote |-> hand[c][1].arg # ""]]_vars

C13_Witness ==
  \E i \in DOMAIN sent :
    /\ sent[i].type = "participant-voted"
    /\ ~sent[i].data.hasVote
    /\ sent[i].to # {}
    /\ sent[i].room \in DOMAIN rooms
    /\ \E c \in sent[i].to : rooms[sent[i].room].p[c].vote = ""

\* ----------------------------------------------------------------- C14
\* C14: right after reveal(R) the room is revealed and lastRound holds
\* exactly one entry per participant of R at that instant, under the
\* participant's id, with the name and the vote it had at the reveal.
C14_RevealSnapshot ==
  [][\A c \in Conns, r \in DOMAIN rooms :
       HandleReveal(c, r)
       => /\ rooms'[r].revealed
          /\ rooms'[r].lastRound # None
          /\ LET lr == rooms'[r].lastRound[1].participants
             IN /\ DOMAIN lr = DOMAIN rooms[r].p
                /\ \A i \in DOMAIN lr :
                     /\ lr[i].name = rooms[r].p[i].name
                     /\ lr[i].vote = rooms[r].p[i].vote]_vars

C14_Witness ==
  \E r \in DOMAIN rooms :
    /\ lastTerminal[r] = "reveal"
    /\ rooms[r].revealed
    /\ rooms[r].lastRound # None
    /\ Cardinality(DOMAIN rooms[r].lastRound[1].participants) = 1
    /\ \E i \in DOMAIN rooms[r].lastRound[1].participants :
         rooms[r].lastRound[1].participants[i].vote = "5"

\* ----------------------------------------------------------------- C15
\* C15: once a reveal has created lastRound, its contents change only at a
\* new reveal, which replaces it, or at a reset, which erases it; no vote,
\* reestimate, suspend, resume, update-name, update-story, join or
\* disconnect changes it.
C15_LastRoundImmutable ==
  [][\A r \in DOMAIN rooms :
       (rooms[r].lastRound # None /\ rooms'[r].lastRound # rooms[r].lastRound)
       => \/ \E c \in Conns : HandleReveal(c, r)
          \/ /\ \E c \in Conns : HandleReset(c, r)
             /\ rooms'[r].lastRound = None]_vars

C15_Witness ==
  \E r \in DOMAIN rooms :
    /\ rooms[r].lastRound # None
    /\ lastTerminal[r] = "reestimate"
    /\ \E i \in DOMAIN rooms[r].lastRound[1].participants :
         /\ rooms[r].lastRound[1].participants[i].vote = "5"
         /\ i \in DOMAIN rooms[r].p
         /\ rooms[r].p[i].vote = Null

\* ----------------------------------------------------------------- C16
\* C16: reestimate(R) sets revealed to false and the vote of every
\* participant of R, paused or not, to null, and changes nothing else:
\* lastRound, story, the participant ids, names and paused flags, and every
\* other room stay as they were.
C16_ReestimateFrame ==
  [][\A c \in Conns, r \in DOMAIN rooms :
       HandleReestimate(c, r)
       => rooms' =
            [rooms EXCEPT
               ![r].revealed = FALSE,
               ![r].p = [i \in DOMAIN rooms[r].p |->
                           [name |-> rooms[r].p[i].name,
                            vote |-> Null,
                            paused |-> rooms[r].p[i].paused]]]]_vars

C16_Witness ==
  \E r \in DOMAIN rooms :
    /\ lastTerminal[r] = "reestimate"
    /\ ~rooms[r].revealed
    /\ rooms[r].lastRound # None
    /\ \E i \in DOMAIN rooms[r].p :
         /\ rooms[r].p[i].paused
         /\ rooms[r].p[i].vote = Null
         /\ i \in DOMAIN rooms[r].lastRound[1].participants
         /\ rooms[r].lastRound[1].participants[i].paused
         /\ rooms[r].lastRound[1].participants[i].vote = "5"

\* ----------------------------------------------------------------- C17
\* C17 as stated: reset(R) sets revealed to false, every vote to null,
\* story to null and lastRound to null, and keeps the participant ids with
\* their names and paused flags.
C17_AsStated ==
  [][\A c \in Conns, r \in DOMAIN rooms :
       HandleReset(c, r)
       => rooms' =
            [rooms EXCEPT
               ![r].revealed = FALSE,
               ![r].story = Null,
               ![r].lastRound = None,
               ![r].p = [i \in DOMAIN rooms[r].p |->
                           [name |-> rooms[r].p[i].name,
                            vote |-> Null,
                            paused |-> rooms[r].p[i].paused]]]]_vars

\* ----------------------------------------------------------------- C18
\* C18 as stated: suspend-voting of a participant sets its paused flag and
\* keeps its vote; resume-voting clears its paused flag and sets its vote to
\* null; neither changes another participant or a room field.
C18_AsStated ==
  [][\A c \in Conns, r \in DOMAIN rooms :
       c \in DOMAIN rooms[r].p
       => /\ HandleSuspendVoting(c, r)
               => rooms' = [rooms EXCEPT ![r].p[c].paused = TRUE]
          /\ HandleResumeVoting(c, r)
               => rooms' = [rooms EXCEPT ![r].p[c].paused = FALSE,
                                         ![r].p[c].vote = Null]]_vars

\* ----------------------------------------------------------------- C19
\* C19 as stated: resume-voting is idempotent: a second resume by the same
\* participant leaves the room reached by the first as it is; and a resume
\* by a participant that is not paused changes nothing but that
\* participant's vote, which it clears.
C19_AsStated ==
  [][\A c \in Conns, r \in DOMAIN rooms :
       (c \in DOMAIN rooms[r].p /\ HandleResumeVoting(c, r))
       => /\ ResumeRoom(rooms'[r], c) = rooms'[r]
          /\ ~rooms[r].p[c].paused
               => rooms' = [rooms EXCEPT ![r].p[c].vote = Null]]_vars

\* ----------------------------------------------------------------- C20
\* C20: update-name(R, n) of a participant changes only the name of the
\* caller's own entry: its id, vote and paused flag, every other
\* participant and the number of participants stay as they were, also when
\* another participant of R already has the name n.
C20_UpdateNameFrame ==
  [][\A c \in Conns, r \in DOMAIN rooms, n \in Names :
       (c \in DOMAIN rooms[r].p /\ HandleUpdateName(c, r, n))
       => rooms' = [rooms EXCEPT ![r].p[c].name = n]]_vars

C20_Witness ==
  \E r \in DOMAIN rooms :
    \E c1 \in DOMAIN rooms[r].p, c2 \in DOMAIN rooms[r].p :
      /\ c1 # c2
      /\ rooms[r].p[c1].name = rooms[r].p[c2].name
      /\ Cardinality(DOMAIN rooms[r].p) = 2

\* C21: a vote, reveal, reestimate, reset, update-story, update-name,
\* suspend-voting or resume-voting that names a room id absent from the store
\* is a no-op: no room is created, no room changes, nothing is sent and no
\* broadcast is left pending, and the sender stays registered and open.
C21_UnknownRoomNoOp ==
  [][\A c \in Conns, type \in KnownTypes \ {"join-room"}, r \in RoomIds :
       \A arg \in FieldVals(type) :
         (r \notin DOMAIN rooms /\ Receive(c, type, r, arg))
           => /\ rooms' = rooms
              /\ roomsCreated' = roomsCreated
              /\ sent' = <<>>
              /\ hand' = hand
              /\ clients' = clients
              /\ sockOpen' = sockOpen]_vars

\* the last message read was such an operation on a room that does not
\* exist, sent by a participant of a room that does
C21_Witness ==
  /\ recv # None
  /\ recv[1].type \in KnownTypes \ {"join-room"}
  /\ recv[1].roomId \in RoomIds \ DOMAIN rooms
  /\ recv[1].conn \in clients \cap sockOpen
  /\ \E x \in DOMAIN rooms : recv[1].conn \in DOMAIN rooms[x].p
  /\ sent = <<>>

\* C22: a message with an unknown type, or of a known type with a missing or
\* mistyped field, changes no room, creates no room and no participant,
\* sends nothing and leaves the sender's connection open and registered.
C22_AsStated ==
  [][\A c \in Conns, type \in MsgTypes,
        r \in RoomIds \cup {NotAString, NoData} :
       \A arg \in FieldVals(type) :
         (/\ \/ type \notin KnownTypes
             \/ r \in {NotAString, NoData}
             \/ arg = NotAString
          /\ Receive(c, type, r, arg))
           => /\ rooms' = rooms
              /\ roomsCreated' = roomsCreated
              /\ sent' = <<>>
              /\ hand' = hand
              /\ clients' = clients
              /\ sockOpen' = sockOpen]_vars

\* the step at which the join-room of connection c for room r sends its
\* room-state messages
JoinEmits(c, r) ==
  \/ impl = "node" /\ \E n \in Names : HandleJoinRoom(c, r, n)
  \/ /\ impl = "go"
     /\ hand[c] # None
     /\ hand[c][1].op = "join-room"
     /\ hand[c][1].room = r
     /\ GoBroadcast(c)

\* the participants of room r right after the join of c that the step
\* JoinEmits(c, r) ends
AfterJoin(c, r) == IF impl = "node" THEN rooms'[r].p ELSE joined[c][1]

\* the room-state messages of the step that are written to connection i
RoomStatesTo(i) ==
  {k \in DOMAIN sent' : sent'[k].type = "room-state" /\ i \in sent'[k].to}

WaitsOn(t) ==
  IF ~Busy(t) THEN {}
  ELSE LET h == HeadOp(t)
       IN CASE h.op \in {"RLock", "Lock"} -> {lk[h.l].w} \ {NoThread}
            [] h.op = "Acquire" -> {u \in LThreads : lk[h.l].rd[u] > 0}
            [] OTHER -> {}
WaitsNext(S) == S \cup UNION {WaitsOn(u) : u \in S}
\* the goroutines t waits for, directly or through the waits of others
WaitsPlus(t) == WaitsNext(WaitsNext(WaitsNext(WaitsNext(WaitsOn(t)))))

\* the rooms whose mu goroutine t holds for reading
RoomsRead(t) == {mu \in DOMAIN roomConns : lk[mu].rd[t] > 0}
\* the open connections goroutine t is writing to: broadcastToRoom writes to
\* the participants found in s.clients, a heartbeat tick pings every client
WritesTo(t) ==
  IF ~Busy(t) THEN {}
  ELSE CASE HeadOp(t).op = "Send" ->
              (UNION {roomConns[mu] : mu \in RoomsRead(t)}) \cap (reg \ shut)
         [] HeadOp(t).op = "Probe" -> reg \ shut
         [] OTHER -> {}

\* goroutine t is in the send loop of a broadcast or of a heartbeat tick
AtSend(t) ==
  /\ Busy(t)
  /\ \/ HeadOp(t).op = "Send"
     \/ HeadOp(t).op = "Probe" /\ reg # {}
\* the locks goroutine t holds
Holds(t) ==
  {l \in LLocks : \/ lk[l].rd[t] > 0
                  \/ lk[l].w = t /\ HeadOp(t).op # "Acquire"}
\* goroutine t runs a handler or a broadcast for a room
RoomOp(t) == thr[t].kind \in {"join", "votelike", "statelike", "rebroadcast"}

\* C24: no interleaving of handlers, broadcasts, rebroadcasts, heartbeat
\* ticks, registrations, disconnects and the shutdown reaches a state where
\* a goroutine waits at a lock for goroutines that wait for it.
C24_AsStated == \A t \in LThreads : t \notin WaitsPlus(t)

\* C25: a handler or broadcast for one room never waits at a lock, directly
\* or through the waits of others, for a handler or broadcast of another
\* room that is in its send loop.
C25_AsStated ==
  \A t, u \in LThreads :
     (/\ RoomOp(t) /\ RoomOp(u)
      /\ thr[t].room # thr[u].room
      /\ AtSend(u))
       => u \notin WaitsPlus(t)

\* C26: a goroutine in a send loop holds no room lock, no room-store lock
\* and no registry lock.
C26_AsStated == \A t \in LThreads : AtSend(t) => Holds(t) = {}

\* C27: a tick closes every registered connection that has not answered
\* the previous ping, and lowers the flag of and pings every other one; a
\* connection the heartbeat closes holds a ping it did not answer, and a
\* registered connection is closed once two ticks have passed since its last
\* answer.
C27_Heartbeat ==
  [][/\ Tick =>
          \A c \in clients :
            /\ ~isAlive[c] => c \notin sockOpen'
            /\ isAlive[c] =>
                 /\ ~isAlive'[c]
                 /\ c \in sockOpen =>
                      /\ c \in sockOpen'
                      /\ \E k \in DOMAIN sent' :
                           sent'[k].kind = "ping" /\ c \in sent'[k].to
     /\ \A c \in hbClosed' \ hbClosed : probe[c]
     /\ \A c \in clients' : since'[c] >= 2 => c \notin sockOpen'
    ]_vars

\* one tick has closed a connection that held an unanswered ping and pinged
\* another that had answered
C27_Witness ==
  /\ hbClosed # {}
  /\ \E k \in DOMAIN sent : sent[k].kind = "ping" /\ sent[k].to # {}
  /\ \E c \in clients \cap sockOpen : probe[c] /\ since[c] = 1 /\ nticks >= 2

\* C28 (as stated, lock level of the Go server): a connection that the
\* heartbeat force-closed while it was registered is eventually removed
\* from the registry.
C28_AsStated ==
  \A t \in Handlers : (t \in shut /\ t \in reg) ~> (t \notin reg)

\* Shutdown returns: its last statement, the Unlock after the registry was
\* replaced, is executed
ShutdownReturns == Busy("down") /\ ~Busy("down")'

\* C29 (as stated, lock level of the Go server): at the step in which
\* Shutdown returns, whatever handlers are in flight, the room store and
\* the connection registry are empty, every connection that was registered
\* is closed, and no heartbeat tick or bridge rebroadcast starts afterwards.
C29_AsStated ==
  [][/\ ShutdownReturns =>
          (store' = <<>> /\ reg' = {} /\ reg \subseteq shut')
     /\ (clears > 0 /\ ~Busy("down")) =>
          \A t \in {"hb", "sub"} : Busy(t)' => Busy(t)]_vars

\* the subscriber delivers a message of the shared channel to the room
Rebroadcast ==
  \E r \in RoomIds, e \in {{}} \cup {{c} : c \in Conns} :
    RedisMessage(r, "room-state", e)

\* C30 (as stated): with the bridge configured, every broadcast a step of a
\* protocol operation makes is also published in that step, with the same
\* room id, type, payload and exclude id.
C30_AsStated ==
  [][(redisUrl /\ ~Rebroadcast) =>
       \A i \in DOMAIN sent' :
          sent'[i].kind = "broadcast" =>
            \E j \in DOMAIN published' :
               published'[j] = [room |-> sent'[i].room,
                                type |-> sent'[i].type,
                                data |-> sent'[i].data,
                                exclude |-> sent'[i].exclude]]_vars

\* C31 (as stated): no step delivers a broadcast to a connection that
\* already received that broadcast, also when the subscriber of the
\* originating instance reads the message the instance published.
C31_AsStated ==
  [][\A k \in DOMAIN cdeliv' :
       \A c \in cdeliv'[k].msg.to : <<cdeliv'[k].bid, c>> \notin cgot]_vars

\* C32 (as stated): every connection that was accepted and whose close
\* was not handled yet has a registry entry of its own, and no two of them
\* have the same id.
C32_AsStated ==
  /\ \A k \in live : /\ sockId[k] \in DOMAIN registry
                      /\ registry[sockId[k]] = k
  /\ \A j, k \in live : j # k => sockId[j] # sockId[k]

\* C33: a broadcast reaches every participant of the room that is not
\* excluded, is registered and has an open socket, whatever the state of
\* the other participants' connections; the participants it cannot write
\* to stay in the room, and a step that only broadcasts (the last section
\* of a Go handler, a rebroadcast) changes no room.
C33_DeadRecipientIsolated ==
  [][/\ \A k \in DOMAIN sent' :
          sent'[k].kind = "broadcast" /\ sent'[k].room \in DOMAIN rooms'
            => LET r == sent'[k].room
                   members == (DOMAIN rooms'[r].p) \ sent'[k].exclude
               IN /\ sent'[k].to =
                       {id \in members : id \in clients /\ id \in sockOpen}
                  /\ \A id \in members \ sent'[k].to :
                       (r \in DOMAIN rooms /\ id \in DOMAIN rooms[r].p)
                         => rooms'[r].p[id].name = rooms[r].p[id].name
     /\ (Rebroadcast \/ \E c \in Conns : GoBroadcast(c)) => rooms' = rooms]_vars

\* a broadcast was delivered to one participant while another participant
\* of the room, not excluded, had a closed or deregistered connection
C33_Witness ==
  \E k \in DOMAIN sent :
     /\ sent[k].kind = "broadcast"
     /\ sent[k].to # {}
     /\ sent[k].room \in DOMAIN rooms
     /\ \E id \in DOMAIN rooms[sent[k].room].p :
          id \notin sent[k].exclude /\ id \notin sockOpen

\* C34: a join-room by a connection that is a participant of the room
\* under the name it sends leaves the connection with one entry under that
\* name, adds no participant and renames none; when no other participant
\* has that name the participants of the room are left as they were.
C34_RejoinSameName ==
  [][\A c \in Conns, n \in Names :
       ( /\ TheRoom \in DOMAIN rooms
         /\ c \in DOMAIN rooms[TheRoom].p
         /\ rooms[TheRoom].p[c].name = n
         /\ JoinStep(c, TheRoom, n) )
       => LET old == rooms[TheRoom].p
              new == rooms'[TheRoom].p
          IN /\ c \in DOMAIN new
             /\ new[c].name = n
             /\ DOMAIN new \subseteq DOMAIN old
             /\ \A i \in DOMAIN new : new[i].name = old[i].name
             /\ {i \in DOMAIN old : old[i].name = n} = {c} => new = old]_vars

\* the only connection there ever was has joined again under its name: the
\* step before was a join and the vote it cast earlier is still there
C34_Witness ==
  /\ nextId = 1
  /\ TheRoom \in DOMAIN rooms
  /\ 1 \in DOMAIN rooms[TheRoom].p
  /\ rooms[TheRoom].p[1].vote = "5"
  /\ \/ /\ impl = "node"
        /\ sent # <<>>
        /\ sent[1].kind = "send" /\ sent[1].type = "room-state"
     \/ /\ impl = "go"
        /\ hand[1] # None
        /\ hand[1][1].op = "join-room" /\ hand[1][1].pc = "bcast"

\* C35 (as stated): while the room is not revealed, no message written to
\* a connection carries the vote value of a participant other than that
\* connection.
C35_AsStated ==
  [][\A k \in DOMAIN sent' :
       ( /\ sent'[k].kind \in {"send", "broadcast"}
         /\ sent'[k].room \in DOMAIN rooms'
         /\ ~rooms'[sent'[k].room].revealed
         /\ "participants" \in DOMAIN sent'[k].data )
       => \A c \in sent'[k].to :
            \A i \in DOMAIN sent'[k].data.participants :
               i # c => sent'[k].data.participants[i].vote \in {Null, ""}]_vars

\* C36 (as stated): reveal, reestimate, reset and update-story sent by a
\* connection that is not a participant of the room leave the room's
\* revealed flag, story, lastRound and participants' votes unchanged.
C36_AsStated ==
  [][\A c \in Conns, r \in RoomIds, op \in RoomOps :
       \A arg \in (IF op = "update-story" THEN StoryVals ELSE {Null}) :
         ( /\ r \in DOMAIN rooms
           /\ c \notin DOMAIN rooms[r].p
           /\ Handle(c, op, r, arg) )
         => /\ rooms'[r].revealed = rooms[r].revealed
            /\ rooms'[r].story = rooms[r].story
            /\ rooms'[r].lastRound = rooms[r].lastRound
            /\ rooms'[r].p = rooms[r].p]_vars

\* C37 (as stated): a participant of a room whose connection is registered
\* and open, and stays so, is still a participant of the room after every
\* step other than a join of its own.
C37_AsStated ==
  [][\A r \in DOMAIN rooms : \A c \in DOMAIN rooms[r].p :
       ( /\ c \in clients /\ c \in sockOpen
         /\ c \in clients' /\ c \in sockOpen'
         /\ ~\E r2 \in RoomIds, n \in Names : JoinStep(c, r2, n) )
       => (r \in DOMAIN rooms' /\ c \in DOMAIN rooms'[r].p)]_vars

\* C38 (as stated): when no handler is in flight and every message was
\* handled by its client, the view of every participant of the room with a
\* registered, open connection has the room's revealed flag, story and
\* lastRound.
C38_AsStated ==
  ( /\ ~Pending
    /\ \A c \in Conns : hand[c] = None
    /\ TheRoom \in DOMAIN rooms )
  => \A c \in DOMAIN rooms[TheRoom].p :
       (c \in clients /\ c \in sockOpen)
         => /\ view[c].revealed = rooms[TheRoom].revealed
            /\ view[c].story = rooms[TheRoom].story
            /\ view[c].lastRound = rooms[TheRoom].lastRound

\* C39: at most one send is in progress on a connection at any time: no two
\* goroutines (handlers' broadcasts, the subscriber's rebroadcasts, the
\* heartbeat's probes) are in their send loops over a common open
\* connection.
C39_AsStated ==
  \A t, u \in LThreads : t # u => WritesTo(t) \cap WritesTo(u) = {}

\* C40 (as stated): with two bridged instances serving one room id, a
\* room-state, revealed or room-reset message that the subscriber of an
\* instance delivers for another instance lists every participant of the
\* logical room, the receiving instance's included; and the round a reveal
\* snapshots holds the votes cast on the other instance.
C40_AsStated ==
  [][\A i \in Instances :
       /\ (/\ cqueue[i] # <<>>
           /\ ClusterDeliver(i)
           /\ Head(cqueue[i]).from # i
           /\ Head(cqueue[i]).msg.type \in {"room-state", "revealed",
                                            "room-reset"})
          => (\A k \in DOMAIN cdeliv' :
                cdeliv'[k].msg.to # {}
                  => LogicalRoom(TheRoom)
                       \subseteq DOMAIN cdeliv'[k].msg.data.participants)
       /\ (\A c \in ClusterConns :
             (/\ ClusterHandle(i, c, "reveal", TheRoom, Null)
              /\ cdeliv' # <<>>)
             => (\A k \in DOMAIN cdeliv', q \in LogicalRoom(TheRoom) :
                   LogicalVote(TheRoom, q) # Null
                     => /\ q \in DOMAIN cdeliv'[k].msg.data.participants
                        /\ cdeliv'[k].msg.data.participants[q].vote
                             = LogicalVote(TheRoom, q)))]_vars

TypeOK ==
  /\ impl \in Impls
  /\ clients \subseteq 1..nextId
  /\ sockOpen \subseteq clients
  /\ DOMAIN rooms \subseteq RoomKeys
  /\ nmsg \in Nat
====
